---- MODULE Spec2Model ----
(***************************************************************************)
(* Model of ftrack-query's expression algebra (utils.py, abstract.py,      *)
(* query.py).  The library keeps every expression as rendered text, so     *)
(* text is modelled as a sequence of one-character strings and the string  *)
(* surgery of the code (strip, slicing, regular expressions, join) is      *)
(* carried out character by character.                                     *)
(***************************************************************************)
EXTENDS Integers, Sequences, FiniteSets, TLC

(***************************************************************************)
(* Text helpers: the Python str operations the code uses.                  *)
(***************************************************************************)
S_not == <<"n", "o", "t", " ">>
S_and == <<"a", "n", "d">>
S_or == <<"o", "r">>
S_is == <<" ", "i", "s", " ">>
S_none == <<"n", "o", "n", "e">>
S_None == <<"N", "o", "n", "e">>
S_gen == <<"<", "g", "e", "n", ">">>

WordChars ==
    {"a", "b", "c", "d", "e", "f", "g", "h", "i", "j", "k", "l", "m",
     "n", "o", "p", "q", "r", "s", "t", "u", "v", "w", "x", "y", "z",
     "A", "B", "C", "D", "E", "F", "G", "H", "I", "J", "K", "L", "M",
     "N", "O", "P", "Q", "R", "S", "T", "U", "V", "W", "X", "Y", "Z",
     "0", "1", "2", "3", "4", "5", "6", "7", "8", "9", "_"}

Digits == <<"0", "1", "2", "3", "4", "5", "6", "7", "8", "9">>

\* s[i:] of Python, with a 1-based first index
From(s, i) == SubSeq(s, i, Len(s))

\* s.startswith(p)
StartsWith(s, p) == Len(s) >= Len(p) /\ SubSeq(s, 1, Len(p)) = p

\* s.lstrip() and s.strip(); the only whitespace of the alphabet is " "
RECURSIVE LStrip(_)
LStrip(s) == IF s # <<>> /\ s[1] = " " THEN LStrip(Tail(s)) ELSE s

RECURSIVE RStrip(_)
RStrip(s) ==
    IF s # <<>> /\ s[Len(s)] = " " THEN RStrip(SubSeq(s, 1, Len(s) - 1)) ELSE s

Strip(s) == LStrip(RStrip(s))

\* the value of a set of one value
Only(S) == CHOOSE result \in S : TRUE

\* sep.join(parts)
RECURSIVE Join(_, _)
Join(sep, parts) ==
    IF parts = <<>> THEN <<>>
    ELSE IF Len(parts) = 1 THEN parts[1]
    ELSE parts[1] \o sep \o Join(sep, Tail(parts))

\* s.replace('"', '\\"')
RECURSIVE EscapeQuotes(_)
EscapeQuotes(s) ==
    IF s = <<>> THEN <<>>
    ELSE IF s[1] = "\"" THEN <<"\\", "\"">> \o EscapeQuotes(Tail(s))
    ELSE <<s[1]>> \o EscapeQuotes(Tail(s))

\* str(n) for a natural number
RECURSIVE StrNat(_)
StrNat(n) == IF n < 10 THEN <<Digits[n + 1]>> ELSE StrNat(n \div 10) \o <<Digits[(n % 10) + 1]>>

(***************************************************************************)
(* Values a comparison can be given: None, a number, text, an entity.      *)
(***************************************************************************)
\* every value is a record of one shape: its type t, the number n, the text
\* s (the id of an entity), the items of a list or generator, the statement q
NoStatement ==
    [kind |-> "", entity |-> <<>>, session |-> 0, populate |-> 0, sort |-> 0,
     where |-> 0, group_by |-> 0, offset |-> 0, limit |-> 0, page_size |-> 0,
     values |-> 0, remove_components |-> FALSE]

Value(t, n, s, items, q) == [t |-> t, n |-> n, s |-> s, items |-> items, q |-> q]

VNone == Value("none", 0, <<>>, <<>>, NoStatement)
VNum(n) == Value("num", n, <<>>, <<>>, NoStatement)
VText(s) == Value("text", 0, s, <<>>, NoStatement)
VEntity(id) == Value("entity", 0, id, <<>>, NoStatement)

\* utils.convert_output_value
convert_output_value(value) ==
    IF value.t = "none" THEN S_none
    ELSE IF value.t = "num" THEN StrNat(value.n)
    ELSE IF value.t = "entity" THEN value.s
    ELSE <<"\"">> \o EscapeQuotes(value.s) \o <<"\"">>

\* abstract.Comparison._get_value_base: (base, value)
get_value_base(path, value) ==
    <<IF value.t = "entity" THEN path \o <<".", "i", "d">> ELSE path,
      convert_output_value(value)>>

\* query.Comparison.__eq__: '{} is {}'.format(*self._get_value_base(value))
Eq(path, value) ==
    LET bv == get_value_base(path, value) IN bv[1] \o S_is \o bv[2]

(***************************************************************************)
(* utils._requires_extra_brackets and utils.reverse_value                  *)
(***************************************************************************)
\* least position at or after i holding a character of C, Len(s) + 1 if none
FirstAt(s, i, C) ==
    LET J == {j \in i..Len(s) : s[j] \in C}
    IN IF J = {} THEN Len(s) + 1 ELSE CHOOSE j \in J : \A k \in J : j <= k

\* index of the first '"' of s at or after i, 0 when there is none
NextQuote(s, i) ==
    LET j == FirstAt(s, i, {"\""}) IN IF j > Len(s) THEN 0 ELSE j

\* re.sub(r'"[^"]*"', '', s): leftmost matches, from a quote to the next quote
RECURSIVE RemoveQuotes(_)
RemoveQuotes(s) ==
    LET q == NextQuote(s, 1)
        r == IF q = 0 THEN 0 ELSE NextQuote(s, q + 1)
    IN IF r = 0 THEN s
       ELSE SubSeq(s, 1, q - 1) \o RemoveQuotes(From(s, r + 1))

\* depth after the first k characters of s: +1 for "(", -1 for ")"
Depth(s, k) ==
    Cardinality({j \in 1..k : s[j] = "("}) - Cardinality({j \in 1..k : s[j] = ")"})

\* the loop over value[1:-1] returns True at the first character that takes
\* the depth below zero: it does so iff some prefix has a negative depth
DepthGoesNegative(s) == \E k \in 1..Len(s) : Depth(s, k) < 0

\* value is never empty here: reverse_value returns before the call
requires_extra_brackets(value) ==
    IF value[1] # "(" \/ value[Len(value)] # ")" THEN TRUE
    ELSE LET v == RemoveQuotes(value)
         IN DepthGoesNegative(SubSeq(v, 2, Len(v) - 1))

\* the word w stands at position i of s between two word boundaries
WordAt(s, i, w) ==
    /\ i + Len(w) - 1 <= Len(s)
    /\ SubSeq(s, i, i + Len(w) - 1) = w
    /\ (i = 1 \/ s[i - 1] \notin WordChars)
    /\ (i + Len(w) > Len(s) \/ s[i + Len(w)] \notin WordChars)

\* bool(re.search(r'\b(and|or)\b', s))
HasAndOr(s) == \E i \in 1..Len(s) : WordAt(s, i, S_and) \/ WordAt(s, i, S_or)

\* reverse_value without its first test (lines 142-144): brackets are never
\* added for "and"/"or"
reverse_value_unbracketed(val) ==
    LET input_value == Strip(val)
        is_reversed == StartsWith(input_value, S_not)
        value == IF is_reversed THEN LStrip(From(input_value, 5)) ELSE input_value
    IN IF value = <<>> THEN <<>>
       ELSE IF requires_extra_brackets(value) /\ is_reversed THEN value
       ELSE IF is_reversed THEN SubSeq(value, 2, Len(value) - 1)
       ELSE S_not \o value

\* utils.reverse_value
reverse_value(val) ==
    LET input_value == Strip(val)
        is_reversed == StartsWith(input_value, S_not)
        value == IF is_reversed THEN LStrip(From(input_value, 5)) ELSE input_value
    IN IF value = <<>> THEN <<>>
       ELSE IF requires_extra_brackets(value) /\ HasAndOr(value)
            THEN S_not \o <<"(">> \o input_value \o <<")">>
       ELSE IF requires_extra_brackets(value) /\ is_reversed THEN value
       ELSE IF is_reversed THEN SubSeq(value, 2, Len(value) - 1)
       ELSE S_not \o value

(***************************************************************************)
(* The grammar the rendered text is written for (spec.md section 6):       *)
(*   expr := operand (("and" | "or") operand)*      read left to right     *)
(*   operand := "not" operand | "(" expr ")" | path " is " literal         *)
(* A text literal runs from a quote to the next quote that no backslash    *)
(* escapes.  The meaning of a text is the set of truth assignments (sets   *)
(* of true predicates, over the predicates that occur) satisfying it.      *)
(***************************************************************************)
NoMeaning == [ok |-> FALSE, atoms |-> {}, sat |-> {}, pos |-> 0]

MAnd(m1, m2) ==
    LET atoms == m1.atoms \cup m2.atoms
    IN [ok |-> TRUE, atoms |-> atoms, pos |-> m2.pos,
        sat |-> {S \in SUBSET atoms :
                    (S \cap m1.atoms) \in m1.sat /\ (S \cap m2.atoms) \in m2.sat}]

MOr(m1, m2) ==
    LET atoms == m1.atoms \cup m2.atoms
    IN [ok |-> TRUE, atoms |-> atoms, pos |-> m2.pos,
        sat |-> {S \in SUBSET atoms :
                    (S \cap m1.atoms) \in m1.sat \/ (S \cap m2.atoms) \in m2.sat}]

MNot(m) == [m EXCEPT !.sat = (SUBSET m.atoms) \ m.sat]

MAtom(text, pos) == [ok |-> TRUE, atoms |-> {text}, sat |-> {{text}}, pos |-> pos]

\* first position at or after i that holds no space (Len(s) + 1 if none)
SkipSpaces(s, i) ==
    LET J == {j \in i..Len(s) : s[j] # " "}
    IN IF J = {} THEN Len(s) + 1 ELSE CHOOSE j \in J : \A k \in J : j <= k

\* first position at or after i that holds a space or a bracket (Len(s)+1 if none)
WordEnd(s, i) == FirstAt(s, i, {" ", "(", ")"})

\* number of backslashes that stand directly before position j, from i on
BackslashRun(s, i, j) ==
    LET J == {k \in i..(j - 1) : s[k] # "\\"}
    IN IF J = {} THEN j - i ELSE j - 1 - (CHOOSE k \in J : \A m \in J : m <= k)

\* position of the quote closing a literal whose content starts at i (0 if
\* none): the first quote that an even number of backslashes precedes
ClosingQuote(s, i) ==
    LET J == {j \in i..Len(s) : s[j] = "\"" /\ BackslashRun(s, i, j) % 2 = 0}
    IN IF J = {} THEN 0 ELSE CHOOSE j \in J : \A k \in J : j <= k

\* the keyword w stands at i, delimited by a space, a bracket or the end
KeywordAt(s, i, w) ==
    /\ i + Len(w) - 1 <= Len(s)
    /\ SubSeq(s, i, i + Len(w) - 1) = w
    /\ (i + Len(w) > Len(s) \/ s[i + Len(w)] \in {" ", "(", ")"})

\* path " is " literal, starting at i
ReadPredicate(s, i) ==
    LET e == WordEnd(s, i)
        v == e + Len(S_is)
    IN IF e = i \/ v > Len(s) \/ SubSeq(s, e, v - 1) # S_is THEN NoMeaning
       ELSE IF s[v] = "\"" THEN
            LET c == ClosingQuote(s, v + 1)
            IN IF c = 0 THEN NoMeaning ELSE MAtom(SubSeq(s, i, c), c + 1)
       ELSE LET w == WordEnd(s, v)
            IN IF w = v THEN NoMeaning ELSE MAtom(SubSeq(s, i, w - 1), w)

RECURSIVE ReadOperand(_, _), ReadExpr(_, _), ReadRest(_, _)
ReadOperand(s, j) ==
    LET i == SkipSpaces(s, j)
    IN IF i > Len(s) \/ s[i] = ")" THEN NoMeaning
       ELSE IF s[i] = "(" THEN
            LET m == ReadExpr(s, i + 1)
                k == IF m.ok THEN SkipSpaces(s, m.pos) ELSE 0
            IN IF m.ok /\ k <= Len(s) /\ s[k] = ")" THEN [m EXCEPT !.pos = k + 1]
               ELSE NoMeaning
       ELSE IF KeywordAt(s, i, <<"n", "o", "t">>) THEN
            LET m == ReadOperand(s, i + 3)
            IN IF m.ok THEN MNot(m) ELSE NoMeaning
       ELSE ReadPredicate(s, i)

\* continue an expression whose left part has the meaning left
ReadRest(s, left) ==
    LET i == SkipSpaces(s, left.pos)
    IN IF KeywordAt(s, i, S_and) THEN
            LET m == ReadOperand(s, i + Len(S_and))
            IN IF m.ok THEN ReadRest(s, MAnd(left, m)) ELSE NoMeaning
       ELSE IF KeywordAt(s, i, S_or) THEN
            LET m == ReadOperand(s, i + Len(S_or))
            IN IF m.ok THEN ReadRest(s, MOr(left, m)) ELSE NoMeaning
       ELSE left

ReadExpr(s, i) ==
    LET m == ReadOperand(s, i) IN IF m.ok THEN ReadRest(s, m) ELSE NoMeaning

\* the meaning of a whole text: [ok, atoms, sat]
Meaning(s) ==
    LET m == ReadExpr(s, 1)
    IN IF m.ok /\ SkipSpaces(s, m.pos) = Len(s) + 1
       THEN [ok |-> TRUE, atoms |-> m.atoms, sat |-> m.sat]
       ELSE [ok |-> FALSE, atoms |-> {}, sat |-> {}]

\* the text is one bracketed group: its first bracket closes at its last character
Enclosed(s) ==
    /\ s # <<>>
    /\ s[1] = "("
    /\ LET m == ReadOperand(s, 1) IN m.ok /\ m.pos = Len(s) + 1

(***************************************************************************)
(* Expression objects.  The code keeps only `value` (here: text); the      *)
(* other fields record how the caller built the expression: kind of the    *)
(* outermost combination, parity of the negations applied to it, the       *)
(* operands joined, and the truth assignments the caller's nesting means.  *)
(***************************************************************************)
Brief(e) == [text |-> e.text, kind |-> e.kind, negs |-> e.negs]

MkExpr(text, kind, negs, pure, atoms, sat, terms) ==
    [text |-> text, kind |-> kind, negs |-> negs, pure |-> pure,
     atoms |-> atoms, sat |-> sat, terms |-> terms]

\* attr(path) == value
Pred(path, value) ==
    LET t == Eq(path, value) IN MkExpr(t, "pred", 0, TRUE, {t}, {{t}}, <<>>)

\* what str() gives for a None and for a generator object left in the parts
NonePart == MkExpr(S_None, "none", 0, FALSE, {}, {}, <<>>)
GenPart == MkExpr(S_gen, "gen", 0, FALSE, {}, {}, <<>>)
NoExpr == MkExpr(<<>>, "empty", 0, FALSE, {}, {}, <<>>)

\* positional arguments of and_/or_/not_
AExpr(e) == [a |-> "expr", e |-> e, items |-> <<>>, p |-> <<>>, v |-> VNone]
ANone == [a |-> "none", e |-> NoExpr, items |-> <<>>, p |-> <<>>, v |-> VNone]
AEntity == [a |-> "entity", e |-> NoExpr, items |-> <<>>, p |-> <<>>, v |-> VNone]
AGen(items) == [a |-> "gen", e |-> NoExpr, items |-> items, p |-> <<>>, v |-> VNone]
\* a keyword argument, or one key of a dict argument
AKw(path, value) == [a |-> "kw", e |-> NoExpr, items |-> <<>>, p |-> path, v |-> value]

\* an item a generator yields, as the parser passes it on
ItemPart(item) == IF item.a = "none" THEN NonePart ELSE item.e

RECURSIVE ItemParts(_)
ItemParts(items) ==
    IF items = <<>> THEN <<>> ELSE <<ItemPart(items[1])>> \o ItemParts(Tail(items))

\* abstract.Comparison.parser, from the i-th of the arguments on
RECURSIVE parser(_, _)
parser(args, i) ==
    IF i > Len(args) THEN <<>>
    ELSE LET arg == args[i]
             here == IF arg.a = "kw" THEN <<Pred(arg.p, arg.v)>>
                     ELSE IF arg.a = "gen" /\ Len(args) = 1 THEN ItemParts(arg.items)
                     ELSE IF arg.a = "gen" THEN <<GenPart>>
                     ELSE IF arg.a = "none" THEN <<NonePart>>
                     ELSE <<arg.e>>
         IN here \o parser(args, i + 1)

\* the TypeError of the parser: an entity given without a keyword
parser_raises(args) == \E i \in 1..Len(args) : args[i].a = "entity"

\* (arg for arg in args if arg is not None)
DropNone(args) == SelectSeq(args, LAMBDA arg : arg.a # "none")

RECURSIVE Texts(_)
Texts(parts) == IF parts = <<>> THEN <<>> ELSE <<parts[1].text>> \o Texts(Tail(parts))

RECURSIVE Briefs(_)
Briefs(parts) == IF parts = <<>> THEN <<>> ELSE <<Brief(parts[1])>> \o Briefs(Tail(parts))

AllAtoms(parts) == UNION {parts[i].atoms : i \in 1..Len(parts)}

\* assignments over all the atoms that satisfy every / some part
SatAll(parts) ==
    {S \in SUBSET AllAtoms(parts) :
        \A i \in 1..Len(parts) : (S \cap parts[i].atoms) \in parts[i].sat}

SatSome(parts) ==
    {S \in SUBSET AllAtoms(parts) :
        \E i \in 1..Len(parts) : (S \cap parts[i].atoms) \in parts[i].sat}

\* the function register_operator(name, brackets) returns, applied to args:
\* [err, e, parts]
operator(name, brackets, args) ==
    Only({Only({
        LET query == Join(<<" ">> \o name \o <<" ">>, Texts(query_parts))
            text == IF brackets /\ Len(query_parts) > 1
                    THEN <<"(">> \o query \o <<")">> ELSE query
            e == IF Len(query_parts) = 0 THEN NoExpr
                 ELSE IF Len(query_parts) = 1 THEN query_parts[1]
                 ELSE MkExpr(text, IF name = S_and THEN "and" ELSE "or", 0,
                             \A i \in 1..Len(query_parts) : query_parts[i].pure,
                             AllAtoms(query_parts),
                             IF name = S_and THEN SatAll(query_parts)
                             ELSE SatSome(query_parts),
                             Briefs(query_parts))
        IN IF parser_raises(kept)
           THEN [err |-> "TypeError", e |-> NoExpr, parts |-> <<>>]
           ELSE [err |-> "", e |-> [e EXCEPT !.text = text], parts |-> query_parts]
        : query_parts \in {parser(kept, 1)}}) : kept \in {DropNone(args)}})

\* and_ registered with brackets=True
and_bracketed(args) == operator(S_and, TRUE, args)

\* and_ = Comparison.register_operator('and', brackets=False)
and_(args) == operator(S_and, FALSE, args)

\* or_ = Comparison.register_operator('or', brackets=True)
or_(args) == operator(S_or, TRUE, args)

\* __invert__ that only prepends the keyword
invert_prepended(e) ==
    [e EXCEPT !.text = S_not \o e.text, !.negs = 1 - e.negs, !.pure = FALSE,
              !.sat = (SUBSET e.atoms) \ e.sat]

\* abstract.Comparison.__invert__
invert(e) ==
    [e EXCEPT !.text = reverse_value(e.text), !.negs = 1 - e.negs, !.pure = FALSE,
              !.sat = (SUBSET e.atoms) \ e.sat]

\* not_ as the and of the negated parts
not_of_each(args) ==
    LET r == or_(args)
        negated == [i \in 1..Len(r.parts) |-> reverse_value(r.parts[i].text)]
    IN IF r.err # "" THEN r
       ELSE [r EXCEPT !.e = [invert(r.e) EXCEPT
                                !.text = Join(<<" ", "a", "n", "d", " ">>, negated)]]

\* query.not_: ~or_(*args, **kwargs)
not_(args) ==
    LET r == or_(args) IN IF r.err # "" THEN r ELSE [r EXCEPT !.e = invert(r.e)]

(***************************************************************************)
(* The caller's session with the expression algebra.                       *)
(*   x     the expression the caller holds                                 *)
(*   last  the last call: its name, the error it raised, the parts joined  *)
(*         (for a comparison method: the path and the arguments)           *)
(*   hist  the expressions the last (up to two) consecutive ~ were         *)
(*         applied to, oldest first                                        *)
(*   n     number of calls made                                            *)
(***************************************************************************)
VARIABLES x, last, hist, n

(***************************************************************************)
(* The caller's session with the statement builders.                       *)
(*   objs   the statements the caller holds, in the order it got them      *)
(*   lists  the list and dict objects the statements refer to: a statement *)
(*          holds the index of each of its lists, as Python holds a        *)
(*          reference                                                      *)
(*   call   the last call on a statement: method, receiver, argument,      *)
(*          error raised, index of the statement returned, clauses the     *)
(*          call targets, calls it made on sessions                        *)
(*   snap   each statement, and the lists, as they were when the caller    *)
(*          got it, and the call that made it                              *)
(***************************************************************************)
VARIABLES objs, lists, call, snap

evars == <<x, last, hist, n>>

svars == <<objs, lists, call, snap>>

vars == <<x, last, hist, n, objs, lists, call, snap>>

NoCall ==
    [op |-> "init", recv |-> 0, err |-> "", res |-> 0, targets |-> {}, arg |-> <<>>,
     sent |-> <<>>, ret |-> <<>>]

\* no statement has been made
NoStmts == objs = <<>> /\ lists = <<>> /\ call = NoCall /\ snap = <<>>

MaxOps == 5
MaxCombOps == 2
MaxLen == 52

P_a == <<"a">>
P_b == <<"b">>
P_c == <<"c">>
T_quote == <<"\"">>
T_or == <<"o", "r">>
T_xor == <<"x", "o", "r">>

Paths == {P_a, P_b}
Values == {VNone, VNum(1), VText(T_xor), VText(T_or), VText(T_quote)}

\* the predicate the caller combines the held expression with
Other == Pred(P_c, VNum(1))

Past(e) == [text |-> e.text, kind |-> e.kind, negs |-> e.negs, terms |-> e.terms]

Call(op, err, parts) == [op |-> op, err |-> err, parts |-> Briefs(parts)]

\* argument lists of the nesting specification
NestArgs ==
    {<<AExpr(x), AExpr(Other)>>, <<AExpr(Other), AExpr(x)>>, <<AExpr(x), AExpr(x)>>}

\* argument lists of the combinator specification
CombArgs ==
    {<<>>, <<AExpr(x)>>, <<ANone>>, <<ANone, AExpr(x)>>, <<AExpr(x), ANone>>,
     <<AExpr(x), AExpr(Other)>>, <<AExpr(Other), AExpr(x)>>,
     <<AExpr(x), ANone, AExpr(Other)>>, <<AExpr(x), AExpr(Other), AExpr(x)>>,
     <<AGen(<<>>)>>, <<AGen(<<AExpr(x)>>)>>, <<AGen(<<ANone>>)>>,
     <<AGen(<<AExpr(x), ANone>>)>>, <<AGen(<<AExpr(x), ANone, AExpr(Other)>>)>>,
     <<ANone, AGen(<<AExpr(x), AExpr(Other)>>)>>,
     <<AGen(<<AExpr(x)>>), AExpr(Other)>>,
     <<AExpr(x), AKw(P_c, VNum(1))>>, <<AKw(P_c, VNone)>>,
     <<AEntity>>, <<AExpr(x), AEntity>>}

\* one call r = f(*args) whose result, unless it raised, replaces x
Apply(op, r) ==
    /\ Len(r.e.text) <= MaxLen
    /\ x' = IF r.err = "" THEN r.e ELSE x
    /\ last' = Call(op, r.err, r.parts)
    /\ hist' = <<>>
    /\ n' = n + 1
    /\ UNCHANGED svars

AndOp(args, max) == n < max /\ Apply("and", and_(args))

OrOp(args, max) == n < max /\ Apply("or", or_(args))

NotOp(args, max) == n < max /\ Apply("not_", not_(args))

\* x = ~x
InvertOp(max) ==
    /\ n < max
    /\ Len(invert(x).text) <= MaxLen
    /\ x' = invert(x)
    /\ last' = Call("invert", "", <<>>)
    /\ hist' = IF Len(hist) = 2 THEN <<hist[2], Past(x)>> ELSE Append(hist, Past(x))
    /\ n' = n + 1
    /\ UNCHANGED svars

InitWith(preds) ==
    /\ x \in preds
    /\ last = Call("init", "", <<>>)
    /\ hist = <<>>
    /\ n = 0
    /\ NoStmts

\* nesting of and_, or_, not_ and ~ over a few predicates
Init == InitWith({Pred(P_a, VNum(1)), Pred(P_b, VText(T_quote))})

Next ==
    \/ \E args \in NestArgs : AndOp(args, MaxOps)
    \/ \E args \in NestArgs : OrOp(args, MaxOps)
    \/ \E args \in NestArgs : NotOp(args, MaxOps)
    \/ InvertOp(MaxOps)

Spec == Init /\ [][Next]_vars

\* one combinator call on every kind of argument list, over every predicate
InitComb == InitWith({Pred(p, v) : p \in Paths, v \in Values})

NextComb ==
    \/ \E args \in CombArgs : AndOp(args, MaxCombOps)
    \/ \E args \in CombArgs : OrOp(args, MaxCombOps)
    \/ \E args \in CombArgs : NotOp(args, MaxCombOps)
    \/ InvertOp(MaxCombOps)

SpecComb == InitComb /\ [][NextComb]_vars

(***************************************************************************)
(* Statements: Select, Create, Update and Delete of query.py.              *)
(***************************************************************************)
S_select == <<"s", "e", "l", "e", "c", "t">>
S_from == <<"f", "r", "o", "m">>
S_where == <<"w", "h", "e", "r", "e">>
S_group_by == <<"g", "r", "o", "u", "p", " ", "b", "y">>
S_order_by == <<"o", "r", "d", "e", "r", " ", "b", "y">>
S_descending == <<" ", "d", "e", "s", "c", "e", "n", "d", "i", "n", "g">>
S_offset == <<"o", "f", "f", "s", "e", "t">>
S_limit == <<"l", "i", "m", "i", "t">>
S_create == <<"c", "r", "e", "a", "t", "e", " ">>
S_update == <<"u", "p", "d", "a", "t", "e", " ">>
S_set == <<" ", "s", "e", "t", " ", "(">>
S_delete == <<"d", "e", "l", "e", "t", "e", " ">>
S_id == <<"i", "d">>
S_comma == <<",", " ">>

\* the value of a field that holds None (session, page size)
NoneValue == 0

\* list(), [] or {}: new list objects with these contents are put after the
\* ones there are; the k-th of them is referred to by Len(ls) + k
NewLists(ls, contents) == ls \o contents

\* SessionInstance.__init__
SessionInstance_init(kind, entity_type) ==
    [kind |-> kind, entity |-> entity_type, session |-> NoneValue,
     populate |-> 0, sort |-> 0, where |-> 0, group_by |-> 0,
     offset |-> 0, limit |-> 0, page_size |-> NoneValue,
     values |-> 0, remove_components |-> FALSE]

\* Select.__init__: [lists, o]
Select_init(ls, kind, entity_type) ==
    [lists |-> NewLists(ls, <<<<>>, <<>>, <<>>, <<>>>>),
     o |-> [SessionInstance_init(kind, entity_type) EXCEPT
               !.populate = Len(ls) + 1, !.sort = Len(ls) + 2, !.where = Len(ls) + 3,
               !.group_by = Len(ls) + 4, !.offset = 0, !.limit = 0,
               !.page_size = NoneValue]]

\* Create.__init__
Create_init(ls, entity_type) ==
    [lists |-> NewLists(ls, <<<<>>>>),
     o |-> [SessionInstance_init("Create", entity_type) EXCEPT !.values = Len(ls) + 1]]

\* Update.__init__
Update_init(ls, entity_type) ==
    LET s == Select_init(NewLists(ls, <<<<>>>>), "Update", entity_type)
    IN [s EXCEPT !.o.values = Len(ls) + 1]

\* Delete.__init__
Delete_init(ls, entity_type) ==
    [Select_init(ls, "Delete", entity_type) EXCEPT !.o.remove_components = FALSE]

\* type(self)(entity_type=...)
Construct(ls, kind, entity_type) ==
    CASE kind = "Select" -> Select_init(ls, "Select", entity_type)
      [] kind = "Create" -> Create_init(ls, entity_type)
      [] kind = "Update" -> Update_init(ls, entity_type)
      [] kind = "Delete" -> Delete_init(ls, entity_type)

\* SessionInstance.copy
SessionInstance_copy(ls, self) ==
    [Construct(ls, self.kind, self.entity) EXCEPT !.o.session = self.session]

\* Select.copy where the new statement is given the receiver's _where list
\* itself instead of a copy of it
Select_copy_same_where(ls, self) ==
    LET new == SessionInstance_copy(ls, self)
        at == Len(new.lists)
    IN [lists |-> NewLists(new.lists, <<ls[self.where], ls[self.populate],
                                        ls[self.group_by], ls[self.sort]>>),
        o |-> [new.o EXCEPT !.entity = self.entity, !.where = self.where,
                  !.populate = at + 2, !.group_by = at + 3, !.sort = at + 4,
                  !.offset = self.offset, !.limit = self.limit,
                  !.page_size = self.page_size]]

\* Select.copy
Select_copy(ls, self) ==
    LET new == SessionInstance_copy(ls, self)
        at == Len(new.lists)
    IN [lists |-> NewLists(new.lists, <<ls[self.where], ls[self.populate],
                                        ls[self.group_by], ls[self.sort]>>),
        o |-> [new.o EXCEPT !.entity = self.entity, !.where = at + 1,
                  !.populate = at + 2, !.group_by = at + 3, !.sort = at + 4,
                  !.offset = self.offset, !.limit = self.limit,
                  !.page_size = self.page_size]]

\* Create.copy
Create_copy(ls, self) ==
    LET new == SessionInstance_copy(ls, self)
    IN [lists |-> NewLists(new.lists, <<ls[self.values]>>),
        o |-> [new.o EXCEPT !.values = Len(new.lists) + 1]]

\* Update.copy
Update_copy(ls, self) ==
    LET new == Select_copy(ls, self)
    IN [lists |-> NewLists(new.lists, <<ls[self.values]>>),
        o |-> [new.o EXCEPT !.values = Len(new.lists) + 1]]

\* Delete.copy
Delete_copy(ls, self) ==
    [Select_copy(ls, self) EXCEPT !.o.remove_components = self.remove_components]

\* self.copy(), as clone_instance calls it
copy(ls, self) ==
    CASE self.kind = "Select" -> Select_copy(ls, self)
      [] self.kind = "Create" -> Create_copy(ls, self)
      [] self.kind = "Update" -> Update_copy(ls, self)
      [] self.kind = "Delete" -> Delete_copy(ls, self)

\* repr(value) of a number or of a text without quotes or backslashes
Repr(value) ==
    IF value.t = "num" THEN StrNat(value.n) ELSE <<"'">> \o value.s \o <<"'">>

\* '{}={!r}'.format(key, value) for each item of a dict, joined by ', '
\* (utils.dict_to_str gives the same for values that are no entities)
dict_to_str(dct) ==
    Join(S_comma, [i \in 1..Len(dct) |-> dct[i][1] \o <<"=">> \o Repr(dct[i][2])])

\* dict.update(kwargs) on a dict kept as the sequence of its items
RECURSIVE DictUpdate(_, _)
DictUpdate(dct, kwargs) ==
    IF kwargs = <<>> THEN dct
    ELSE LET key == kwargs[1][1]
             at == {i \in 1..Len(dct) : dct[i][1] = key}
             set == IF at = {} THEN Append(dct, kwargs[1])
                    ELSE [i \in 1..Len(dct) |-> IF i \in at THEN kwargs[1] ELSE dct[i]]
         IN DictUpdate(set, Tail(kwargs))

\* the Comparison objects of a _where list as arguments of and_
WhereArgs(items) == [i \in 1..Len(items) |-> AExpr([NoExpr EXCEPT !.text = items[i]])]

\* Select.__str__ where the limit clause is written before the offset clause
Select_str_limit_first(ls, self) ==
    LET projection == IF ls[self.populate] # <<>>
                      THEN <<S_select, Join(S_comma, ls[self.populate]), S_from>>
                      ELSE <<>>
        condition == and_(WhereArgs(ls[self.where])).e.text
        where == IF condition # <<>> THEN <<S_where, condition>> ELSE <<condition>>
        group == IF ls[self.group_by] # <<>>
                 THEN <<S_group_by, Join(S_comma, ls[self.group_by])>> ELSE <<>>
        keys == [i \in 1..Len(ls[self.sort]) |->
                    ls[self.sort][i][1]
                        \o (IF ls[self.sort][i][2] THEN S_descending ELSE <<>>)]
        order == IF ls[self.sort] # <<>> THEN <<S_order_by, Join(S_comma, keys)>>
                 ELSE <<>>
        offset == IF self.offset # 0 THEN <<S_offset, StrNat(self.offset)>> ELSE <<>>
        limit == IF self.limit # 0 THEN <<S_limit, StrNat(self.limit)>> ELSE <<>>
        query == projection \o <<self.entity>> \o where \o group \o order
                    \o limit \o offset
    IN Join(<<" ">>, SelectSeq(query, LAMBDA part : part # <<>>))

\* Select.__str__
Select_str(ls, self) ==
    LET projection == IF ls[self.populate] # <<>>
                      THEN <<S_select, Join(S_comma, ls[self.populate]), S_from>>
                      ELSE <<>>
        condition == and_(WhereArgs(ls[self.where])).e.text
        where == IF condition # <<>> THEN <<S_where, condition>> ELSE <<condition>>
        group == IF ls[self.group_by] # <<>>
                 THEN <<S_group_by, Join(S_comma, ls[self.group_by])>> ELSE <<>>
        keys == [i \in 1..Len(ls[self.sort]) |->
                    ls[self.sort][i][1]
                        \o (IF ls[self.sort][i][2] THEN S_descending ELSE <<>>)]
        order == IF ls[self.sort] # <<>> THEN <<S_order_by, Join(S_comma, keys)>>
                 ELSE <<>>
        offset == IF self.offset # 0 THEN <<S_offset, StrNat(self.offset)>> ELSE <<>>
        limit == IF self.limit # 0 THEN <<S_limit, StrNat(self.limit)>> ELSE <<>>
        query == projection \o <<self.entity>> \o where \o group \o order
                    \o offset \o limit
    IN Join(<<" ">>, SelectSeq(query, LAMBDA part : part # <<>>))

\* Create.__str__
Create_str(ls, self) ==
    S_create \o self.entity \o <<"(">> \o dict_to_str(ls[self.values]) \o <<")">>

\* Update.__str__
Update_str(ls, self) ==
    S_update \o Select_str(ls, self) \o S_set \o dict_to_str(ls[self.values])
        \o <<")">>

\* Delete.__str__
Delete_str(ls, self) == S_delete \o Select_str(ls, self)

\* str(statement)
Str(ls, self) ==
    CASE self.kind = "Select" -> Select_str(ls, self)
      [] self.kind = "Create" -> Create_str(ls, self)
      [] self.kind = "Update" -> Update_str(ls, self)
      [] self.kind = "Delete" -> Delete_str(ls, self)

\* what a builder call gives: the lists after it, the statement returned and
\* no error
Returned(ls, o) == [lists |-> ls, o |-> o, err |-> ""]

\* a builder call that raised: nothing is returned, and the copy it had made,
\* which nothing refers to, is gone with its lists
Raised(ls, self, err) == [lists |-> ls, o |-> self, err |-> err]

\* utils.clone_instance: func is called with self.copy(), the new statement
\* and the lists after the copy; a builder is what func returns for it
clone_instance(ls, self) == {copy(ls, self)}

\* Select.where
Select_where(ls, self, args) ==
    Only({
        LET condition == and_(args)
        IN IF condition.err # "" THEN Raised(ls, self, condition.err)
           ELSE Returned([new.lists EXCEPT ![new.o.where] = Append(@, condition.e.text)],
                         new.o)
        : new \in clone_instance(ls, self)})

\* filter(bool, args): None and '' are left out
Truthy(args) == SelectSeq(args, LAMBDA arg : arg # <<>>)

\* Select.populate called on a statement of any class
Select_populate_inherited(ls, self, args) ==
    Only({
        Returned([new.lists EXCEPT ![new.o.populate] = @ \o Truthy(args)], new.o)
        : new \in clone_instance(ls, self)})

\* Select.populate; Update.populate and Delete.populate
Select_populate(ls, self, args) ==
    IF self.kind \in {"Update", "Delete"} THEN Raised(ls, self, "AttributeError")
    ELSE Only({
            Returned([new.lists EXCEPT ![new.o.populate] = @ \o Truthy(args)], new.o)
        : new \in clone_instance(ls, self)})

\* Select.group_by; Update.group_by and Delete.group_by
Select_group_by(ls, self, args) ==
    IF self.kind \in {"Update", "Delete"} THEN Raised(ls, self, "AttributeError")
    ELSE Only({
            Returned([new.lists EXCEPT ![new.o.group_by] = @ \o Truthy(args)], new.o)
        : new \in clone_instance(ls, self)})

\* str.split(' ')
RECURSIVE Split(_)
Split(s) ==
    LET at == FirstAt(s, 1, {" "})
    IN IF at > Len(s) THEN <<s>>
       ELSE <<SubSeq(s, 1, at - 1)>> \o Split(From(s, at + 1))

\* Select.sort; sort is <<>> for None and <<text>> for a text
Select_sort(ls, self, sort) ==
    Only({
        LET spaced == sort # <<>> /\ \E i \in 1..Len(sort[1]) : sort[1][i] = " "
            tokens == IF spaced THEN Split(sort[1]) ELSE sort
            method == tokens[2]
            desc == spaced /\ method \in {<<"d", "e", "s", "c">>, <<"d", "e", "s", "c", "e", "n", "d", "i", "n", "g">>}
        IN IF spaced /\ Len(tokens) # 2 THEN Raised(ls, self, "ValueError")
           ELSE IF spaced /\ ~desc /\ method \notin {<<"a", "s", "c">>, <<"a", "s", "c", "e", "n", "d", "i", "n", "g">>}
                THEN Raised(ls, self, "NotImplementedError")
           ELSE IF sort = <<>>
                THEN Returned(NewLists(new.lists, <<<<>>>>),
                              [new.o EXCEPT !.sort = Len(new.lists) + 1])
           ELSE Returned([new.lists EXCEPT
                             ![new.o.sort] = Append(@, <<tokens[1], desc>>)],
                         new.o)
        : new \in clone_instance(ls, self)})

\* Select.offset
Select_offset(ls, self, value) ==
    Only({
        Returned(new.lists, [new.o EXCEPT !.offset = value])
        : new \in clone_instance(ls, self)})

\* Select.limit
Select_limit(ls, self, value) ==
    Only({
        Returned(new.lists, [new.o EXCEPT !.limit = value])
        : new \in clone_instance(ls, self)})

\* Select.__reversed__ that makes every sort key descending
Select_reversed_descending(ls, self) ==
    Only({
        LET old == new.lists[new.o.sort]
            flipped == [i \in 1..Len(old) |-> <<old[i][1], TRUE>>]
        IN Returned(NewLists(new.lists, <<flipped>>),
                    [new.o EXCEPT !.sort = Len(new.lists) + 1])
        : new \in clone_instance(ls, self)})

\* Select.__reversed__
Select_reversed(ls, self) ==
    Only({
        LET old == new.lists[new.o.sort]
            flipped == [i \in 1..Len(old) |-> <<old[i][1], ~old[i][2]>>]
        IN Returned(NewLists(new.lists, <<flipped>>),
                    [new.o EXCEPT !.sort = Len(new.lists) + 1])
        : new \in clone_instance(ls, self)})

\* Select.subquery without clone_instance: the statement itself is changed
Select_subquery_in_place(ls, self, attribute) ==
    LET name == IF attribute # <<>> /\ attribute[1] # <<>> THEN attribute[1] ELSE S_id
    IN IF attribute # <<>> \/ ls[self.populate] = <<>>
       THEN Returned([ls EXCEPT ![self.populate] = <<name>>], self)
       ELSE Returned(ls, self)

\* Select.subquery; attribute is <<>> for None and <<text>> for a text
Select_subquery(ls, self, attribute) ==
    Only({
        LET name == IF attribute # <<>> /\ attribute[1] # <<>> THEN attribute[1]
                    ELSE S_id
        IN IF attribute # <<>> \/ new.lists[new.o.populate] = <<>>
           THEN Returned([new.lists EXCEPT ![new.o.populate] = <<name>>], new.o)
           ELSE Returned(new.lists, new.o)
        : new \in clone_instance(ls, self)})

\* SessionInstance.options; an option is <<>> when not set and <<value>> when
\* given
SessionInstance_options(ls, self, session) ==
    Only({
        Returned(new.lists,
                 IF session # <<>> THEN [new.o EXCEPT !.session = session[1]]
                 ELSE new.o)
        : new \in clone_instance(ls, self)})

\* Select.options
Select_options(ls, self, session, page_size) ==
    Only({
        SessionInstance_options(
            new.lists,
            IF page_size # <<>> THEN [new.o EXCEPT !.page_size = page_size[1]]
            ELSE new.o,
            session)
        : new \in clone_instance(ls, self)})

\* Delete.options
Delete_options(ls, self, session, page_size, remove_components) ==
    Only({
        Select_options(
            new.lists,
            IF remove_components # <<>>
            THEN [new.o EXCEPT !.remove_components = remove_components[1]]
            ELSE new.o,
            session, page_size)
        : new \in clone_instance(ls, self)})

\* Delete.clean_components
Delete_clean_components(ls, self, remove) ==
    Only({
        Returned(new.lists, [new.o EXCEPT !.remove_components = remove])
        : new \in clone_instance(ls, self)})

\* Create.values and Update.values
values(ls, self, kwargs) ==
    Only({
        Returned([new.lists EXCEPT ![new.o.values] = DictUpdate(@, kwargs)], new.o)
        : new \in clone_instance(ls, self)})

(***************************************************************************)
(* The execution of a statement on a session.                              *)
(***************************************************************************)
\* the attribute Delete.execute preloads when components are to be removed
S_locations ==
    <<"c", "o", "m", "p", "o", "n", "e", "n", "t", "_", "l", "o", "c", "a", "t", "i", "o", "n", "s", ".", "l", "o", "c", "a", "t", "i", "o", "n">>

\* a call of a method of a session, as the session receives it
Sent(session, method, args) == [on |-> session, method |-> method, args |-> args]

\* the outcome of an execute: the error raised, the calls made on the session
\* and on what it gave, in order, and what was returned
Executed(err, sent, ret) == [err |-> err, sent |-> sent, ret |-> ret]

\* a returned value: the result of the of-th call made (of > 0), the part of
\* it that was taken ("" for all of it), or a number
Ret(of, part, count) == [of |-> of, part |-> part, count |-> count]

\* what the server does during one execute: the entities the query finds, as
\* the number of component locations of each one; which of the calls made
\* raises (0: none); the session's auto_populate setting before
Server(found, fails, auto) == [found |-> found, fails |-> fails, auto |-> auto]

\* the error a call on the session raises
S_ServerError == "ServerError"

\* the calls of body are made in order until one raises
Outcome(body, fails, ret) ==
    IF fails \in 1..Len(body) THEN Executed(S_ServerError, SubSeq(body, 1, fails), <<>>)
    ELSE Executed("", body, ret)

\* with session.auto_populating(False): body, where the setting is not
\* restored when the body raises
Scoped_unless_raised(session, server, body, ret) ==
    Only({Executed(inner.err,
                   <<Sent(session, "auto_populating", <<FALSE>>)>> \o inner.sent
                      \o (IF inner.err = ""
                          THEN <<Sent(session, "auto_populate", <<server.auto>>)>>
                          ELSE <<>>),
                   inner.ret)
          : inner \in {Outcome(body, server.fails, ret)}})

\* with session.auto_populating(False): body; the setting is switched off on
\* entry and set back to what it was on exit, however the body is left
Scoped(session, server, body, ret) ==
    Only({Executed(inner.err,
                   <<Sent(session, "auto_populating", <<FALSE>>)>> \o inner.sent
                      \o <<Sent(session, "auto_populate", <<server.auto>>)>>,
                   inner.ret)
          : inner \in {Outcome(body, server.fails, ret)}})

\* SessionInstance._get_session where the session of the statement is not
\* looked at
get_session_passed_only(self, session) ==
    IF session # NoneValue THEN [err |-> "", session |-> session]
    ELSE [err |-> "UnboundSessionError", session |-> NoneValue]

\* SessionInstance._get_session
get_session(self, session) ==
    IF session # NoneValue THEN [err |-> "", session |-> session]
    ELSE IF self.session # NoneValue THEN [err |-> "", session |-> self.session]
    ELSE [err |-> "UnboundSessionError", session |-> NoneValue]

\* Select.execute
Select_execute(ls, self, session, server) ==
    Only({
        IF got.err # "" THEN Executed(got.err, <<>>, <<>>)
        ELSE IF ls[self.group_by] # <<>>
        THEN Outcome(<<Sent(got.session, "call", <<Select_str(ls, self)>>)>>,
                     server.fails, <<Ret(1, "[0]['data']", 0)>>)
        ELSE Outcome(<<Sent(got.session, "query", <<Select_str(ls, self), self.page_size>>)>>,
                     server.fails, <<Ret(1, "", 0)>>)
        : got \in {get_session(self, session)}})

\* Select.all, Select.one, Select.first: self.execute().<how>(); what execute
\* gives for a statement with group_by is a list, which has no such method
Select_fetch(ls, self, how, server) ==
    Only({
        IF done.err # "" THEN done
        ELSE IF done.ret[1].part # "" THEN Executed("AttributeError", done.sent, <<>>)
        ELSE Outcome(Append(done.sent, Sent(done.sent[1].on, how, <<>>)),
                     server.fails, <<Ret(2, "", 0)>>)
        : done \in {Select_execute(ls, self, NoneValue, server)}})

\* Create.execute
Create_execute(ls, self, session, server) ==
    Only({
        IF got.err # "" THEN Executed(got.err, <<>>, <<>>)
        ELSE Outcome(<<Sent(got.session, "create", <<self.entity, ls[self.values]>>)>>,
                     server.fails, <<Ret(1, "", 0)>>)
        : got \in {get_session(self, session)}})

\* entity[key] = value for each entity found and each item of the values
Assignments(session, vals, count) ==
    [p \in 1..(count * Len(vals)) |->
        Sent(session, "entity.__setitem__",
             <<((p - 1) \div Len(vals)) + 1, vals[((p - 1) % Len(vals)) + 1]>>)]

\* Update.execute that counts the items set
Update_execute_counting_items(ls, self, session, server) ==
    Only({
        IF got.err # "" THEN Executed(got.err, <<>>, <<>>)
        ELSE Only({Scoped(got.session, server, body, <<Ret(0, "", Len(body) - 1)>>)
                   : body \in {<<Sent(got.session, "query", <<Select_str(ls, self)>>)>>
                                  \o Assignments(got.session, ls[self.values],
                                                 Len(server.found))}})
        : got \in {get_session(self, session)}})

\* Update.execute; the query gives the entities found, whose items are set
Update_execute(ls, self, session, server) ==
    Only({
        IF got.err # "" THEN Executed(got.err, <<>>, <<>>)
        ELSE Only({Scoped(got.session, server, body, <<Ret(0, "", Len(server.found))>>)
                   : body \in {<<Sent(got.session, "query", <<Select_str(ls, self)>>)>>
                                  \o Assignments(got.session, ls[self.values],
                                                 Len(server.found))}})
        : got \in {get_session(self, session)}})

\* the loop of Delete.execute from the entity e on: its components are removed
\* from each of its locations if that is asked for, then it is deleted
RECURSIVE Deletions(_, _, _, _)
Deletions(session, found, remove, e) ==
    IF e > Len(found) THEN <<>>
    ELSE (IF remove
          THEN [l \in 1..found[e] |-> Sent(session, "location.remove_component", <<e, l>>)]
          ELSE <<>>)
          \o <<Sent(session, "delete", <<e>>)>>
          \o Deletions(session, found, remove, e + 1)

\* Delete.execute where all entities are deleted before any component is
\* removed
Delete_execute_delete_first(ls, self, session, server) ==
    Only({
        Only({
            IF got.err # "" THEN Executed(got.err, <<>>, <<>>)
            ELSE Only({Scoped(got.session, server, body, <<Ret(0, "", Len(server.found))>>)
                       : body \in {<<Sent(got.session, "query",
                                          <<Select_str(pre.lists, pre.o)>>)>>
                                      \o [e \in 1..Len(server.found) |->
                                             Sent(got.session, "delete", <<e>>)]
                                      \o SelectSeq(Deletions(got.session, server.found,
                                                             pre.o.remove_components, 1),
                                                   LAMBDA made : made.method # "delete")}})
            : got \in {get_session(pre.o, session)}})
        : pre \in IF self.remove_components
                  THEN {[lists |-> [new.lists EXCEPT ![new.o.populate] =
                                       Append(@, S_locations)],
                         o |-> new.o] : new \in clone_instance(ls, self)}
                  ELSE {[lists |-> ls, o |-> self]}})

\* Delete.execute; the query gives the entities found, each of which is
\* deleted
Delete_execute(ls, self, session, server) ==
    Only({
        Only({
            IF got.err # "" THEN Executed(got.err, <<>>, <<>>)
            ELSE Only({Scoped(got.session, server, body, <<Ret(0, "", Len(server.found))>>)
                       : body \in {<<Sent(got.session, "query",
                                          <<Select_str(pre.lists, pre.o)>>)>>
                                      \o Deletions(got.session, server.found,
                                                   pre.o.remove_components, 1)}})
            : got \in {get_session(pre.o, session)}})
        : pre \in IF self.remove_components
                  THEN {[lists |-> [new.lists EXCEPT ![new.o.populate] =
                                       Append(@, S_locations)],
                         o |-> new.o] : new \in clone_instance(ls, self)}
                  ELSE {[lists |-> ls, o |-> self]}})

\* statement.execute(session)
execute(ls, self, session, server) ==
    CASE self.kind = "Select" -> Select_execute(ls, self, session, server)
      [] self.kind = "Create" -> Create_execute(ls, self, session, server)
      [] self.kind = "Update" -> Update_execute(ls, self, session, server)
      [] self.kind = "Delete" -> Delete_execute(ls, self, session, server)

\* FTrackQuery.execute where the statement is executed as it is
FTrackQuery_execute_as_bound(ls, session, stmt, server) ==
    execute(ls, stmt, NoneValue, server)

\* FTrackQuery.execute: stmt.options(session=self).execute(); the copy that
\* options made is gone with its lists once it was executed
FTrackQuery_execute(ls, session, stmt, server) ==
    Only({execute(bound.lists, bound.o, NoneValue, server)
          : bound \in {CASE stmt.kind = "Create" ->
                               SessionInstance_options(ls, stmt, <<session>>)
                          [] stmt.kind = "Delete" ->
                               Delete_options(ls, stmt, <<session>>, <<>>, <<>>)
                          [] OTHER -> Select_options(ls, stmt, <<session>>, <<>>)}})

(***************************************************************************)
(* The comparison methods of query.Comparison.                             *)
(***************************************************************************)
\* the methods that compare an attribute with one value: __eq__, __ne__,
\* __gt__, __ge__, __lt__, __le__, like, not_like, after, before
CmpOps == {"eq", "ne", "gt", "ge", "lt", "le", "like", "not_like", "after", "before"}

\* the word each of them writes between the base and the value
Keyword(op) ==
    CASE op = "eq" -> <<"i", "s">>
      [] op = "ne" -> <<"i", "s", "_", "n", "o", "t">>
      [] op = "gt" -> <<">">>
      [] op = "ge" -> <<">", "=">>
      [] op = "lt" -> <<"<">>
      [] op = "le" -> <<"<", "=">>
      [] op = "like" -> <<"l", "i", "k", "e">>
      [] op = "not_like" -> <<"n", "o", "t", "_", "l", "i", "k", "e">>
      [] op = "after" -> <<"a", "f", "t", "e", "r">>
      [] op = "before" -> <<"b", "e", "f", "o", "r", "e">>

\* '{} <word> {}'.format(*self._get_value_base(value))
compare(path, op, value) ==
    LET bv == get_value_base(path, value)
    IN bv[1] \o <<" ">> \o Keyword(op) \o <<" ">> \o bv[2]

\* value.replace('%', '\\%')
RECURSIVE EscapePercent(_)
EscapePercent(s) ==
    IF s = <<>> THEN <<>>
    ELSE IF s[1] = "%" THEN <<"\\", "%">> \o EscapePercent(Tail(s))
    ELSE <<s[1]>> \o EscapePercent(Tail(s))

\* the pattern startswith, endswith and contains hand to like
pattern(op, value) ==
    CASE op = "startswith" -> EscapePercent(value) \o <<"%">>
      [] op = "endswith" -> <<"%">> \o EscapePercent(value)
      [] op = "contains" -> <<"%">> \o EscapePercent(value) \o <<"%">>

\* Comparison.startswith, Comparison.endswith, Comparison.contains
startswith(path, value) == compare(path, "like", VText(pattern("startswith", value)))

endswith(path, value) == compare(path, "like", VText(pattern("endswith", value)))

contains(path, value) == compare(path, "like", VText(pattern("contains", value)))

\* values in_ and not_in can be given besides None, a number and a text: a
\* list of values, a generator of values, a statement
VList(items) == Value("list", 0, <<>>, items, NoStatement)
VGen(items) == Value("gen", 0, <<>>, items, NoStatement)
VStmt(q) == Value("stmt", 0, <<>>, <<>>, q)

\* not values where only None is false
Falsy_only_none(value) == value.t = "none"

\* not values: None, 0, '' and [] are false; a generator object, a statement
\* of an entity type and every other value are true
Falsy(value) ==
    \/ value.t = "none"
    \/ value.t = "num" /\ value.n = 0
    \/ value.t = "text" /\ value.s = <<>>
    \/ value.t = "list" /\ value.items = <<>>

\* the value as convert_output_value takes it: str(value) of a statement is
\* its text
Described(ls, value) ==
    IF value.t = "stmt" THEN VText(Str(ls, value.q)) ELSE value

\* what _prepare_in_subquery gives: the error raised, or the suffix and the
\* subquery; the lists that are left
Prepared(ls, err, suffix, subquery) ==
    [lists |-> ls, err |-> err, suffix |-> suffix, subquery |-> subquery]

\* the literal of each item, str(item) being the text of a statement
Converted(ls, items) ==
    [i \in 1..Len(items) |->
        Only({convert_output_value(value) : value \in {Described(ls, items[i])}})]

\* Comparison._prepare_in_subquery from "Handle FTrack entity instances" on
\* where a mix of entities and other values is taken as plain values
prepare_values_unchecked(ls, items) ==
    LET entities == {i \in 1..Len(items) : items[i].t = "entity"}
    IN IF entities = 1..Len(items)
       THEN Prepared(ls, "", <<".", "i", "d">>,
                     Join(S_comma, [i \in 1..Len(items) |->
                                       convert_output_value(VText(items[i].s))]))
       ELSE Only({Prepared(ls, "", <<>>, Join(S_comma, literals))
                  : literals \in {Converted(ls, items)}})

\* Comparison._prepare_in_subquery from "Handle FTrack entity instances" on:
\* the values are the items of a list
prepare_values(ls, items) ==
    LET entities == {i \in 1..Len(items) : items[i].t = "entity"}
    IN IF entities = 1..Len(items)
       THEN Prepared(ls, "", <<".", "i", "d">>,
                     Join(S_comma, [i \in 1..Len(items) |->
                                       convert_output_value(VText(items[i].s))]))
       ELSE IF entities # {} THEN Prepared(ls, "ValueError", <<>>, <<>>)
       ELSE Only({Prepared(ls, "", <<>>, Join(S_comma, literals))
                  : literals \in {Converted(ls, items)}})

\* Comparison._prepare_in_subquery up to there; the copy values.subquery()
\* makes is gone with its lists once its text is taken, and iterating over a
\* number or a create statement is a TypeError
prepare_in_subquery(ls, given) ==
    LET vals == IF given.t = "gen" THEN VList(given.items) ELSE given
    IN IF Falsy(vals) THEN Prepared(ls, "", <<>>, convert_output_value(VText(<<>>)))
       ELSE IF vals.t = "stmt" /\ vals.q.kind # "Create"
       THEN Only({Prepared(SubSeq(sub.lists, 1, Len(ls)), "", <<>>, Str(sub.lists, sub.o))
                  : sub \in {Select_subquery(ls, vals.q, <<>>)}})
       ELSE IF vals.t = "text" THEN Prepared(ls, "", <<>>, vals.s)
       ELSE IF vals.t # "list" THEN Prepared(ls, "TypeError", <<>>, <<>>)
       ELSE prepare_values(ls, vals.items)

\* '{}{} <word> ({})'.format(self.value, suffix, subquery) unless
\* _prepare_in_subquery raised
membership(path, got, word) ==
    [lists |-> got.lists, err |-> got.err,
     text |-> IF got.err # "" THEN <<>>
              ELSE path \o got.suffix \o <<" ">> \o word \o <<" ", "(">>
                       \o got.subquery \o <<")">>]

\* Comparison.in_, got being what self._prepare_in_subquery(values) gave
in_(path, got) == membership(path, got, <<"i", "n">>)

\* Comparison.not_in, got being what self._prepare_in_subquery(values) gave
not_in(path, got) == membership(path, got, <<"n", "o", "t", "_", "i", "n">>)

\* statement.<op>(arg): the method of that name of the statement's class
Invoke(ls, self, op, arg) ==
    CASE op = "where" -> Select_where(ls, self, arg)
      [] op = "populate" -> Select_populate(ls, self, arg)
      [] op = "group_by" -> Select_group_by(ls, self, arg)
      [] op = "sort" -> Select_sort(ls, self, arg)
      [] op = "offset" -> Select_offset(ls, self, arg)
      [] op = "limit" -> Select_limit(ls, self, arg)
      [] op = "reverse" -> Select_reversed(ls, self)
      [] op = "subquery" -> Select_subquery(ls, self, arg)
      [] op = "values" -> values(ls, self, arg)
      [] op = "clean_components" -> Delete_clean_components(ls, self, arg)
      [] op = "options" /\ self.kind = "Create" ->
             SessionInstance_options(ls, self, arg.session)
      [] op = "options" /\ self.kind = "Delete" ->
             Delete_options(ls, self, arg.session, arg.page_size, arg.remove_components)
      [] op = "options" /\ self.kind \in {"Select", "Update"} ->
             Select_options(ls, self, arg.session, arg.page_size)

MaxStmts == 3

E_Task == <<"T", "a", "s", "k">>
F_name == <<"n", "a", "m", "e">>
T_new == <<"n", "e", "w">>

Kinds == {"Select", "Create", "Update", "Delete"}

Fields ==
    {"kind", "entity", "session", "where", "populate", "group_by", "sort",
     "offset", "limit", "page_size", "values", "remove_components"}

WhereInputs == {<<>>, <<AKw(P_a, VNum(1))>>, <<AEntity>>}
PopulateInputs == {<<F_name>>, <<<<>>, S_id>>}
SortInputs == {<<>>, <<F_name>>, <<<<"i", "d", " ", "d", "e", "s", "c">>>>, <<<<"n", "a", "m", "e", " ", "u", "p">>>>}
OffsetInputs == {5}
LimitInputs == {2}
SubqueryInputs == {<<>>, <<F_name>>}
ValuesInputs == {<<<<F_name, VText(T_new)>>>>, <<<<F_name, VNum(1)>>, <<S_id, VNum(2)>>>>}
OptionsInputs ==
    {[session |-> <<1>>, page_size |-> <<>>, remove_components |-> <<>>],
     [session |-> <<NoneValue>>, page_size |-> <<10>>, remove_components |-> <<>>],
     [session |-> <<>>, page_size |-> <<>>, remove_components |-> <<TRUE>>]}

ExecuteInputs == {"execute", "all", "one", "first"}
SessionInputs == {NoneValue, 2}
\* the server finds nothing and the call succeeds, or the first call raises
ServerInputs == {Server(<<>>, 0, TRUE), Server(<<>>, 1, TRUE)}

\* the list a field refers to; a statement without the field has none
Deref(ls, ref) == IF ref = 0 THEN <<>> ELSE ls[ref]

\* the fields of a statement, its lists by their contents, and its text
ViewOf(ls, o) ==
    [kind |-> o.kind, entity |-> o.entity, session |-> o.session,
     where |-> Deref(ls, o.where), populate |-> Deref(ls, o.populate),
     group_by |-> Deref(ls, o.group_by), sort |-> Deref(ls, o.sort),
     offset |-> o.offset, limit |-> o.limit, page_size |-> o.page_size,
     values |-> Deref(ls, o.values), remove_components |-> o.remove_components,
     text |-> Str(ls, o)]

\* the i-th statement as it is now, and as it was when the caller got it
View(i) == ViewOf(lists, objs[i])

ViewThen(i) == ViewOf(snap[i].lists, snap[i].o)

\* the caller calls a builder of the statement objs[i] and keeps what it returns
Built(op, i, arg, result, targets) ==
    /\ \E r \in {result} :
          \E made \in {[op |-> op, recv |-> i, err |-> r.err,
                        res |-> IF r.err = "" THEN Len(objs) + 1 ELSE 0,
                        targets |-> targets, arg |-> arg, sent |-> <<>>,
                        ret |-> <<>>]} :
             /\ lists' = r.lists
             /\ objs' = IF r.err = "" THEN Append(objs, r.o) ELSE objs
             /\ snap' = IF r.err = ""
                         THEN Append(snap, [lists |-> r.lists, o |-> r.o, by |-> made])
                         ELSE snap
             /\ call' = made
    /\ UNCHANGED evars

\* a builder call while the caller holds fewer than MaxStmts statements
Builder(op, i, arg, result, targets) ==
    Len(objs) < MaxStmts /\ Built(op, i, arg, result, targets)

Where(i, args) ==
    objs[i].kind # "Create" /\ Builder("where", i, args, Select_where(lists, objs[i], args), {"where"})

Populate(i, args) ==
    /\ objs[i].kind # "Create"
    /\ Builder("populate", i, args, Select_populate(lists, objs[i], args), {"populate"})

GroupBy(i, args) ==
    /\ objs[i].kind # "Create"
    /\ Builder("group_by", i, args, Select_group_by(lists, objs[i], args), {"group_by"})

Sort(i, sort) ==
    objs[i].kind # "Create" /\ Builder("sort", i, sort, Select_sort(lists, objs[i], sort), {"sort"})

Offset(i, value) ==
    /\ objs[i].kind # "Create"
    /\ Builder("offset", i, value, Select_offset(lists, objs[i], value), {"offset"})

Limit(i, value) ==
    /\ objs[i].kind # "Create"
    /\ Builder("limit", i, value, Select_limit(lists, objs[i], value), {"limit"})

Reverse(i) ==
    objs[i].kind # "Create" /\ Builder("reverse", i, <<>>, Select_reversed(lists, objs[i]), {"sort"})

Subquery(i, attribute) ==
    /\ objs[i].kind # "Create"
    /\ Builder("subquery", i, attribute, Select_subquery(lists, objs[i], attribute), {"populate"})

\* options of the statement's class, with the options that class accepts
Options(i, opt) ==
    LET self == objs[i]
        given == {f \in {"session", "page_size", "remove_components"} : opt[f] # <<>>}
    IN /\ self.kind = "Create" => given \subseteq {"session"}
       /\ self.kind \in {"Select", "Update"} => given \subseteq {"session", "page_size"}
       /\ Builder("options", i, opt,
                  CASE self.kind = "Create" ->
                           SessionInstance_options(lists, self, opt.session)
                    [] self.kind = "Delete" ->
                           Delete_options(lists, self, opt.session, opt.page_size,
                                          opt.remove_components)
                    [] OTHER -> Select_options(lists, self, opt.session, opt.page_size),
                  given)

SetValues(i, kwargs) ==
    /\ objs[i].kind \in {"Create", "Update"}
    /\ Builder("values", i, kwargs, values(lists, objs[i], kwargs), {"values"})

CleanComponents(i, remove) ==
    /\ objs[i].kind = "Delete"
    /\ Builder("clean_components", i, remove, Delete_clean_components(lists, objs[i], remove),
               {"remove_components"})

\* the caller executes the statement objs[i]: execute(session), or all(),
\* one() or first() of a select, which execute without a session argument
Execute(i, how, session, server) ==
    /\ how # "execute" => objs[i].kind = "Select" /\ session = NoneValue
    /\ objs[i].kind \in {"Select", "Create"} => server.found = <<>>
    /\ \E r \in {IF how = "execute" THEN execute(lists, objs[i], session, server)
                  ELSE Select_fetch(lists, objs[i], how, server)} :
          call' = [op |-> how, recv |-> i, err |-> r.err, res |-> 0, targets |-> {},
                   arg |-> [session |-> session, server |-> server],
                   sent |-> r.sent, ret |-> r.ret]
    /\ UNCHANGED <<objs, lists, snap>>
    /\ UNCHANGED evars

\* the caller calls session.execute(objs[i])
SessionExecute(i, session, server) ==
    /\ objs[i].kind \in {"Select", "Create"} => server.found = <<>>
    /\ \E r \in {FTrackQuery_execute(lists, session, objs[i], server)} :
          call' = [op |-> "session.execute", recv |-> i, err |-> r.err, res |-> 0,
                   targets |-> {}, arg |-> [session |-> session, server |-> server],
                   sent |-> r.sent, ret |-> r.ret]
    /\ UNCHANGED <<objs, lists, snap>>
    /\ UNCHANGED evars

\* select(e), create(e), update(e) or delete(e) of one entity type
InitStmt ==
    /\ x = Other /\ last = Call("init", "", <<>>) /\ hist = <<>> /\ n = 0
    /\ \E kind \in Kinds : \E new \in {Construct(<<>>, kind, E_Task)} :
          /\ objs = <<new.o>>
          /\ lists = new.lists
          /\ snap = <<[lists |-> new.lists, o |-> new.o, by |-> NoCall]>>
    /\ call = NoCall

\* the caller's statements
Held == 1..Len(objs)

NextStmt ==
    \/ \E i \in Held, args \in WhereInputs : Where(i, args)
    \/ \E i \in Held, args \in PopulateInputs : Populate(i, args)
    \/ \E i \in Held, args \in PopulateInputs : GroupBy(i, args)
    \/ \E i \in Held, sort \in SortInputs : Sort(i, sort)
    \/ \E i \in Held, value \in OffsetInputs : Offset(i, value)
    \/ \E i \in Held, value \in LimitInputs : Limit(i, value)
    \/ \E i \in Held : Reverse(i)
    \/ \E i \in Held, attribute \in SubqueryInputs : Subquery(i, attribute)
    \/ \E i \in Held, opt \in OptionsInputs : Options(i, opt)
    \/ \E i \in Held, kwargs \in ValuesInputs : SetValues(i, kwargs)
    \/ \E i \in Held, remove \in BOOLEAN : CleanComponents(i, remove)

SpecStmt == InitStmt /\ [][NextStmt]_vars

\* the caller sets options and clauses that execute looks at, and executes
NextExec ==
    \/ \E i \in Held, opt \in OptionsInputs : Options(i, opt)
    \/ \E i \in Held, args \in WhereInputs : Where(i, args)
    \/ \E i \in Held, args \in PopulateInputs : GroupBy(i, args)
    \/ \E i \in Held, remove \in BOOLEAN : CleanComponents(i, remove)
    \/ \E i \in Held, how \in ExecuteInputs, session \in SessionInputs, server \in ServerInputs :
          Execute(i, how, session, server)
    \/ \E i \in Held, server \in ServerInputs : SessionExecute(i, 2, server)

SpecExec == InitStmt /\ [][NextExec]_vars

(***************************************************************************)
(* The caller makes comparisons from attr(path).                           *)
(***************************************************************************)
\* the Comparison a comparison method returns
Cmp(text) == MkExpr(text, "pred", 0, TRUE, {text}, {{text}}, <<>>)

\* a call of a comparison method of attr(path)
Compared(op, path, args, err) ==
    [op |-> op, err |-> err, parts |-> <<>>, path |-> path, args |-> args]

PatternOps == {"startswith", "endswith", "contains"}
MemberOps == {"in_", "not_in"}

T_ab == <<"a", "b">>
T_cd == <<"c", "d">>
T_backslash == <<"\\">>

CmpValues ==
    {VNone, VNum(0), VNum(12), VText(<<>>), VText(T_ab), VText(T_quote),
     VText(T_backslash), VText(<<"\\", "\"">>), VText(<<"a", "%", "b">>),
     VEntity(T_ab), VEntity(<<"1", "2">>)}

PatternInputs ==
    {<<>>, T_ab, <<"a", "%", "b">>, <<"%">>, <<"\\", "%">>, T_quote}

MemberInputs ==
    {<<>>, <<VNone>>, <<VList(<<>>)>>, <<VGen(<<>>)>>, <<VText(<<>>)>>, <<VNum(0)>>,
     <<VNum(5)>>, <<VText(P_c)>>, <<VList(<<VText(P_c)>>)>>,
     <<VNum(1), VText(P_c)>>, <<VList(<<VNum(1), VText(P_c)>>)>>,
     <<VList(<<VText(T_quote), VNone, VNum(12)>>)>>, <<VGen(<<VNum(0), VNum(1)>>)>>,
     <<VGen(<<VText(T_ab)>>)>>,
     <<VList(<<VEntity(T_ab)>>)>>, <<VList(<<VEntity(T_ab), VEntity(T_cd)>>)>>,
     <<VGen(<<VEntity(T_cd), VEntity(T_ab)>>)>>,
     <<VList(<<VEntity(T_ab), VNum(1)>>)>>, <<VList(<<VText(P_c), VEntity(T_ab)>>)>>,
     <<VGen(<<VNum(1), VEntity(T_ab), VEntity(T_cd)>>)>>}

\* x = attr(path) <op> value, for the ten methods that take one value; a
\* statement given as the value is written as the literal of its text
CompareOp(path, op, value) ==
    /\ \E given \in {Described(lists, value)} : x' = Cmp(compare(path, op, given))
    /\ last' = Compared(op, path, <<value>>, "")
    /\ UNCHANGED <<hist, n>>
    /\ UNCHANGED svars

\* x = attr(path).startswith(value), .endswith(value) or .contains(value)
PatternOp(path, op, value) ==
    /\ x' = Cmp(CASE op = "startswith" -> startswith(path, value)
                  [] op = "endswith" -> endswith(path, value)
                  [] op = "contains" -> contains(path, value))
    /\ last' = Compared(op, path, <<VText(value)>>, "")
    /\ UNCHANGED <<hist, n>>
    /\ UNCHANGED svars

\* x = attr(path).in_(*args) or attr(path).not_in(*args): the methods take one
\* value, None if left out, and more than one is a TypeError; x is what the
\* call returned, nothing if it raised
MemberOp(path, op, args) ==
    /\ \E got \in IF Len(args) > 1 THEN {Prepared(lists, "TypeError", <<>>, <<>>)}
                   ELSE {prepare_in_subquery(lists, IF args = <<>> THEN VNone
                                                     ELSE args[1])} :
          \E r \in {IF op = "in_" THEN in_(path, got) ELSE not_in(path, got)} :
             /\ x' = IF r.err = "" THEN Cmp(r.text) ELSE NoExpr
             /\ last' = Compared(op, path, args, r.err)
             /\ lists' = r.lists
    /\ UNCHANGED <<hist, n, objs, call, snap>>

InitCmp == InitWith({Other})

NextCmp ==
    \/ \E path \in Paths, op \in CmpOps, value \in CmpValues : CompareOp(path, op, value)
    \/ \E path \in Paths, op \in PatternOps, value \in PatternInputs :
          PatternOp(path, op, value)
    \/ \E path \in Paths, op \in MemberOps, args \in MemberInputs :
          MemberOp(path, op, args)

SpecCmp == InitCmp /\ [][NextCmp]_vars

\* argument lists of in_ and not_in made of the statement i, and of it and the
\* statement j
StmtArgs(i, j) ==
    IF i = j THEN {<<VStmt(objs[i])>>, <<VStmt(objs[i]), VStmt(objs[i])>>}
    ELSE {<<VStmt(objs[i]), VStmt(objs[j])>>,
          <<VList(<<VStmt(objs[i]), VStmt(objs[j])>>)>>,
          <<VGen(<<VStmt(objs[i]), VStmt(objs[j])>>)>>}

\* the caller builds statements, tests membership in them (in each one, and
\* in each one together with the last one made) and compares with them
NextSub ==
    \/ \E i \in Held, args \in WhereInputs : Where(i, args)
    \/ \E i \in Held, args \in PopulateInputs : Populate(i, args)
    \/ \E i \in Held, op \in MemberOps :
          \E j \in {i, Len(objs)} : \E args \in StmtArgs(i, j) : MemberOp(P_a, op, args)
    \/ \E i \in Held, op \in {"eq", "ne"} : CompareOp(P_a, op, VStmt(objs[i]))

SpecSub == InitStmt /\ [][NextSub]_vars

\* the number of statements the caller holds when it only sorts and reverses
MaxSortStmts == 4

\* arguments of sort: none, a path, a path and a direction, a path and other
\* tokens
SortTokens ==
    {<<>>, <<P_a>>,
     <<<<"b", " ", "d", "e", "s", "c">>>>,
     <<<<"c", " ", "d", "e", "s", "c", "e", "n", "d", "i", "n", "g">>>>,
     <<<<"b", " ", "a", "s", "c">>>>,
     <<<<"c", " ", "a", "s", "c", "e", "n", "d", "i", "n", "g">>>>,
     <<<<"a", " ", "u", "p">>>>,
     <<<<"a", " ", "d", "e", "s", "c", " ", "x">>>>,
     <<<<"a", " ", " ", "u", "p">>>>}

\* statement.order_by(sort): order_by = sort
OrderBy(i, sort) ==
    /\ Len(objs) < MaxSortStmts
    /\ objs[i].kind # "Create"
    /\ Built("sort", i, sort, Select_sort(lists, objs[i], sort), {"sort"})

\* reversed(statement): reverse = __reversed__
Reversed(i) ==
    /\ Len(objs) < MaxSortStmts
    /\ objs[i].kind # "Create"
    /\ Built("reverse", i, <<>>, Select_reversed(lists, objs[i]), {"sort"})

\* the caller sorts and reverses
NextSort ==
    \/ \E i \in Held, sort \in SortTokens : OrderBy(i, sort)
    \/ \E i \in Held : Reversed(i)

SpecSort == InitStmt /\ [][NextSort]_vars

\* what the server does while an update or a delete runs: no entity, one with
\* two locations, or one without and one with one location; no call raises, or
\* the first or the third one does; automatic fetching was on or off
RunServers ==
    {Server(found, fails, auto) :
        found \in {<<>>, <<2>>, <<0, 1>>}, fails \in {0, 1, 3}, auto \in BOOLEAN}

\* the caller builds a statement and executes the one it made last
NextRun ==
    \/ \E i \in Held : Where(i, <<AKw(P_a, VNum(1))>>)
    \/ \E i \in Held, value \in LimitInputs : Limit(i, value)
    \/ \E i \in Held, kwargs \in ValuesInputs : SetValues(i, kwargs)
    \/ \E i \in Held, remove \in BOOLEAN : CleanComponents(i, remove)
    \/ \E i \in {Len(objs)}, server \in RunServers : Execute(i, "execute", 2, server)
    \/ \E i \in {Len(objs)}, server \in RunServers : SessionExecute(i, 1, server)

SpecRun == InitStmt /\ [][NextRun]_vars

(***************************************************************************)
(* Properties of negation and combination.                                 *)
(***************************************************************************)
Inverted == last.op = "invert" /\ hist # <<>>

\* the expression the last ~ was applied to
Before == hist[Len(hist)]

WithoutBrackets(s) == SelectSeq(s, LAMBDA ch : ch \notin {"(", ")"})

\* the text of and_/or_ applied to the negations of two texts
OfNegations(name, brackets, t1, t2) ==
    operator(name, brackets,
             <<AExpr([NoExpr EXCEPT !.text = reverse_value(t1)]),
               AExpr([NoExpr EXCEPT !.text = reverse_value(t2)])>>).e.text

\* the last ~ was applied to and_/or_ of two plain predicates, as and_/or_
\* returned it
NegatedPair(kind) ==
    /\ Inverted
    /\ Before.kind = kind /\ Before.negs = 0 /\ Len(Before.terms) = 2
    /\ \A i \in 1..2 : Before.terms[i].kind = "pred" /\ Before.terms[i].negs = 0
    /\ Before.text = operator(IF kind = "and" THEN S_and ELSE S_or, kind = "or",
                              <<AExpr([NoExpr EXCEPT !.text = Before.terms[1].text]),
                                AExpr([NoExpr EXCEPT !.text = Before.terms[2].text])>>).e.text

\* C1: double negation is the identity on rendering: after two consecutive ~
\* the text is the text of the predicate, and_ or or_ combination they were
\* applied to
C1_DoubleNegationIdentity ==
    (Len(hist) = 2 /\ last.op = "invert" /\ hist[1].kind \in {"pred", "and", "or"})
        => x.text = hist[1].text

\* C2: negating a single predicate prepends "not " and adds no brackets
C2_NegatedPredicateOnlyPrepends ==
    (Inverted /\ Before.kind = "pred" /\ Before.negs = 0)
        => x.text = S_not \o Before.text

\* C2 as amended: "not " is prepended with no brackets when the predicate's
\* text holds neither "and" nor "or" as a whole word, and the predicate is
\* bracketed when it does
C2_NegatedPredicateAmended ==
    (Inverted /\ Before.kind = "pred" /\ Before.negs = 0)
        => x.text = IF HasAndOr(Before.text)
                    THEN S_not \o <<"(">> \o Before.text \o <<")">>
                    ELSE S_not \o Before.text

C2_Witness ==
    /\ Inverted /\ Before.kind = "pred" /\ Before.negs = 0
    /\ ~HasAndOr(Before.text)
    /\ x.text = S_not \o Before.text
    /\ \E i \in 1..Len(x.text) : x.text[i] = "\""

C4_NegationFlipsMeaning ==
    (Inverted /\ Meaning(Before.text).ok)
        => /\ Meaning(x.text).ok
           /\ Meaning(x.text).atoms = Meaning(Before.text).atoms
           /\ Meaning(x.text).sat
                = (SUBSET Meaning(Before.text).atoms) \ Meaning(Before.text).sat

\* C5: an expression nested from and_ and or_ over predicates reads, left to
\* right, as the nesting the caller built
C5_CombinationKeepsMeaning ==
    (x.pure /\ last.op \in {"and", "or"})
        => Meaning(x.text) = [ok |-> TRUE, atoms |-> x.atoms, sat |-> x.sat]

\* C6: every or-combination of two or more terms given to and_ (negated an
\* even number of times) stands in brackets of its own in the joined text
C6_OrUnderAndBracketed ==
    (last.op = "and" /\ last.err = "" /\ Len(last.parts) > 1)
        => \A i \in 1..Len(last.parts) :
              (last.parts[i].kind = "or" /\ last.parts[i].negs = 0)
                  => Enclosed(last.parts[i].text)

\* C7: or_ brackets its joined text iff more than one term was joined, and_
\* never does; one term comes back unchanged, no term gives the empty text
C7_CombinatorBrackets ==
    (last.op \in {"and", "or"} /\ last.err = "")
        => LET texts == Texts(last.parts)
               sep == IF last.op = "and" THEN <<" ", "a", "n", "d", " ">>
                      ELSE <<" ", "o", "r", " ">>
           IN /\ Len(texts) = 0 => x.text = <<>>
              /\ Len(texts) = 1 => x.text = texts[1]
              /\ (Len(texts) > 1 /\ last.op = "and") => x.text = Join(sep, texts)
              /\ (Len(texts) > 1 /\ last.op = "or")
                    => x.text = <<"(">> \o Join(sep, texts) \o <<")">>

C7_Witness ==
    /\ last.op = "or" /\ last.err = "" /\ Len(last.parts) = 3
    /\ x.text[1] = "(" /\ x.text[Len(x.text)] = ")"

C9_NoneEntriesDropped ==
    (last.op \in {"and", "or"} /\ last.err = "")
        => \A i \in 1..Len(last.parts) : last.parts[i].kind # "none"

(***************************************************************************)
(* Properties of the statement builders.                                   *)
(***************************************************************************)
\* C10: copy-on-write builders: whatever builder calls were made, every
\* statement the caller holds has the fields and the text it had when the
\* caller got it, and the statement a call returned differs from the receiver
\* in no field other than the ones the call targets
C10_CopyOnWrite ==
    /\ \A i \in 1..Len(objs) : View(i) = ViewThen(i)
    /\ call.res # 0
          => \A f \in Fields \ call.targets : View(call.res)[f] = View(call.recv)[f]

\* two calls on the same statement, the second a where that returned a
\* statement with one more condition
C10_Witness ==
    /\ Len(objs) = 3 /\ call.op = "where" /\ call.recv = 1 /\ call.res = 3
    /\ Len(View(3).where) = Len(View(1).where) + 1
    /\ View(3).text # View(1).text
    /\ View(2) # View(1)
    /\ View(1) = ViewThen(1)

\* the first position of the text where the word w starts, 0 if there is none
Find(text, w) ==
    LET at == {i \in 1..(Len(text) - Len(w) + 1) : SubSeq(text, i, i + Len(w) - 1) = w}
    IN IF at = {} THEN 0 ELSE CHOOSE i \in at : \A j \in at : i <= j

\* the words that open the clauses of a statement, in the order of the grammar
ClauseWords(i) ==
    <<S_select, S_from, objs[i].entity, S_where, S_group_by, S_order_by, S_offset,
      S_limit>>

\* the clause words present in the text of statement i are those of its
\* non-empty clauses
ClausesPresent(i) ==
    LET v == View(i)
        has(w) == Find(v.text, w) > 0
    IN /\ has(S_select) <=> v.populate # <<>>
       /\ has(S_from) <=> v.populate # <<>>
       /\ has(v.entity)
       /\ has(S_where) => v.where # <<>>
       /\ (\E c \in 1..Len(v.where) : v.where[c] # <<>>) => has(S_where)
       /\ has(S_group_by) <=> v.group_by # <<>>
       /\ has(S_order_by) <=> v.sort # <<>>
       /\ has(S_offset) <=> v.offset # 0
       /\ has(S_limit) <=> v.limit # 0

\* the clause words present in the text of statement i come in the fixed order
ClausesInOrder(i) ==
    LET text == View(i).text
        pos == [c \in 1..8 |-> Find(text, ClauseWords(i)[c])]
    IN \A c, d \in 1..8 : c < d /\ pos[c] > 0 /\ pos[d] > 0 => pos[c] < pos[d]

\* statement k was made from statement j, and j from i, by two builders that
\* set different clauses
Chain(i, j, k) ==
    /\ snap[k].by.recv = j /\ snap[j].by.recv = i
    /\ snap[k].by.targets \cap snap[j].by.targets = {}

\* the text after the two calls that made j and k, made on i in the other order
Swapped(i, j, k) ==
    LET first == Invoke(lists, objs[i], snap[k].by.op, snap[k].by.arg)
        second == Invoke(first.lists, first.o, snap[j].by.op, snap[j].by.arg)
    IN IF first.err = "" /\ second.err = ""
       THEN <<Str(second.lists, second.o)>> ELSE <<>>

\* C11: the text of a select, update or delete statement lists its clauses in
\* the order projection, entity, where, group by, order by, offset, limit,
\* whatever the order of the builder calls that made it, and two builders of
\* different clauses called in either order give the same text.
C11_FixedRenderingOrder ==
    /\ \A i \in Held : objs[i].kind # "Create" => ClausesPresent(i) /\ ClausesInOrder(i)
    /\ \A i, j, k \in Held : Chain(i, j, k) => Swapped(i, j, k) = <<View(k).text>>

C11_Witness ==
    /\ Len(objs) = 3 /\ objs[1].kind = "Select" /\ Chain(1, 2, 3)
    /\ snap[2].by.op = "limit" /\ snap[3].by.op = "offset"
    /\ Find(View(3).text, S_offset) > 0
    /\ Find(View(3).text, S_offset) < Find(View(3).text, S_limit)
    /\ Swapped(1, 2, 3) = <<View(3).text>>

\* the session given by the last options(session=...) among the calls that made
\* statement i, None if there was none
RECURSIVE LastSession(_)
LastSession(i) ==
    LET by == snap[i].by
    IN IF by.op = "init" THEN NoneValue
       ELSE IF by.op = "options" /\ by.arg.session # <<>> THEN by.arg.session[1]
       ELSE LastSession(by.recv)

\* C12: executing a statement (execute(), all(), one(), first()) of any kind
\* whose last session-setting call left no session bound, with no session
\* passed, raises UnboundSessionError before any call on any session; a
\* statement whose last session-setting call bound a session does not raise it.
C12_UnboundExecutionFails ==
    call.op \in ExecuteInputs =>
        /\ LastSession(call.recv) = NoneValue /\ call.arg.session = NoneValue
              => call.err = "UnboundSessionError" /\ call.sent = <<>>
        /\ LastSession(call.recv) # NoneValue => call.err # "UnboundSessionError"

C12_Witness ==
    /\ call.op = "all" /\ call.recv = 3 /\ call.err = "UnboundSessionError"
    /\ snap[2].by.op = "options" /\ snap[2].by.arg.session = <<1>>
    /\ snap[3].by.op = "options" /\ snap[3].by.arg.session = <<NoneValue>>
    /\ snap[3].by.recv = 2 /\ objs[2].session = 1

(***************************************************************************)
(* Properties of the comparison methods.                                   *)
(***************************************************************************)
\* ' <word> ' between the left and the right side of a comparison
Between(word) == <<" ">> \o word \o <<" ">>

\* the literal of a text by the rules of the literal encoder
TextLiteral(text) == convert_output_value(VText(text))

\* C13: a comparison (==, !=, >, >=, <, <=, like, not_like, after, before) of
\* attr(path) with an entity renders '<path>.id <word> <literal>', where the
\* literal is the identifier of the entity encoded as any other value of its
\* type, a text identifier in quotes, as in_ of a list of entities writes it.
C13_EntityComparison ==
    last.op \in CmpOps /\ last.args[1].t = "entity" =>
        x.text = last.path \o <<".", "i", "d">> \o Between(Keyword(last.op))
                    \o TextLiteral(last.args[1].s)

\* what the grammar reads from the content of a string literal: a backslash
\* gives the character after it its plain meaning
RECURSIVE Unescaped(_)
Unescaped(s) ==
    IF s = <<>> THEN <<>>
    ELSE IF s[1] = "\\" /\ Len(s) > 1 THEN <<s[2]>> \o Unescaped(From(s, 3))
    ELSE <<s[1]>> \o Unescaped(Tail(s))

\* the right side of the comparison x, made of path and word
RightSide(path, word) == From(x.text, Len(path) + Len(word) + 3)

\* C14: the literal of every text value, with quotes and backslashes in it
\* or not, is one string token of the grammar: it opens with a quote, the
\* quote that closes it is its last character, and its content reads as the
\* value.
C14_TextLiteralQuoted ==
    last.op = "eq" /\ last.args[1].t = "text" =>
        LET literal == RightSide(last.path, Keyword("eq"))
        IN /\ Len(literal) >= 2 /\ literal[1] = "\""
           /\ ClosingQuote(literal, 2) = Len(literal)
           /\ Unescaped(SubSeq(literal, 2, Len(literal) - 1)) = last.args[1].s

\* the positions of a pattern that hold a wildcard: a '%' that an even number
\* of backslashes precedes
Wildcards(p) == {i \in 1..Len(p) : p[i] = "%" /\ BackslashRun(p, 1, i) % 2 = 0}

\* the positions of the wildcards startswith, endswith and contains add
Added(op, p) ==
    CASE op = "startswith" -> {Len(p)}
      [] op = "endswith" -> {1}
      [] op = "contains" -> {1, Len(p)}

\* C15: startswith(t), endswith(t) and contains(t) render a like of a pattern
\* whose only wildcards are the ones the method adds, every '%' of t being
\* escaped; like(t) renders t as it is.
C15_PatternsMatchLiterally ==
    /\ last.op \in PatternOps =>
          \E p \in {pattern(last.op, last.args[1].s)} :
              /\ x.text = last.path \o Between(Keyword("like")) \o TextLiteral(p)
              /\ Wildcards(p) = Added(last.op, p)
    /\ last.op = "like" /\ last.args[1].t = "text" =>
          x.text = last.path \o Between(Keyword("like")) \o TextLiteral(last.args[1].s)

\* the word in_ and not_in write
MemberWord(op) == IF op = "in_" THEN <<"i", "n">> ELSE <<"n", "o", "t", "_", "i", "n">>

\* '<left> <word> (<inner>)'
Membership(left, op, inner) ==
    left \o Between(MemberWord(op)) \o <<"(">> \o inner \o <<")">>

\* in_ or not_in was called without values, with an empty list or with a
\* generator that gives nothing
EmptyMembership ==
    /\ last.op \in MemberOps
    /\ last.args \in {<<>>, <<VList(<<>>)>>, <<VGen(<<>>)>>}

\* C16: in_ and not_in with no values, with an empty list or with a generator
\* that yields nothing render '<path> in ("")' and '<path> not_in ("")'.
C16_EmptyMembership ==
    EmptyMembership =>
        last.err = "" /\ x.text = Membership(last.path, last.op, <<"\"", "\"">>)

C16_Witness ==
    /\ EmptyMembership /\ last.op = "not_in" /\ last.args = <<VGen(<<>>)>>
    /\ x.text = <<"a", " ", "n", "o", "t", "_", "i", "n", " ", "(", "\"", "\"", ")">>

\* the values given to in_ or not_in: the arguments, or the items of the one
\* list or generator given
Given(args) ==
    IF Len(args) = 1 /\ args[1].t \in {"list", "gen"} THEN args[1].items ELSE args

\* numbers and texts
Plain(vs) == \A i \in 1..Len(vs) : vs[i].t \in {"num", "text"}

\* the literals of the values, in their order, joined by ', '
Literals(vs) ==
    Join(S_comma, [i \in 1..Len(vs) |-> convert_output_value(vs[i])])

\* C17: in_ and not_in given one or more plain values, as separate arguments
\* or from a generator, render '<path> in (<l1>, <l2>, ...)' with the literal
\* of each value in input order; the single text 'c' renders ("c").
C17_PlainMembership ==
    /\ last.op \in MemberOps
    /\ Len(last.args) >= 1
    /\ Plain(last.args) \/ (Len(last.args) = 1 /\ last.args[1].t = "gen"
                                /\ last.args[1].items # <<>> /\ Plain(last.args[1].items))
    => last.err = "" /\ x.text = Membership(last.path, last.op, Literals(Given(last.args)))

\* in_ or not_in was called with one list or generator of values
Collection == last.op \in MemberOps /\ Len(last.args) = 1 /\ last.args[1].t \in {"list", "gen"}

Entities(vs) == {i \in 1..Len(vs) : vs[i].t = "entity"}

Nested(args) == {i \in 1..Len(Given(args)) : Given(args)[i].t = "stmt"}

\* C19: in_ and not_in given more than one nested select statement raise
\* ValueError and give no expression.
C19_OneSubqueryOnly ==
    /\ last.op \in MemberOps
    /\ Cardinality(Nested(last.args)) > 1
    /\ \A i \in Nested(last.args) : Given(last.args)[i].q.kind = "Select"
    => last.err = "ValueError"

\* in_ or not_in was called with one select statement
OneSelect ==
    /\ last.op \in MemberOps /\ Len(last.args) = 1
    /\ last.args[1].t = "stmt" /\ last.args[1].q.kind = "Select"

C21_SubqueryEqualityRejected ==
    (/\ last.op \in {"eq", "ne"}
     /\ Len(last.args) = 1
     /\ last.args[1].t = "stmt"
     /\ last.args[1].q.kind = "Select")
        => last.err # "" /\ x = NoExpr

\* the sort key direction words
Descending == {<<"d", "e", "s", "c">>, <<"d", "e", "s", "c", "e", "n", "d", "i", "n", "g">>}

Ascending == {<<"a", "s", "c">>, <<"a", "s", "c", "e", "n", "d", "i", "n", "g">>}

\* the last call was sort with a text that has a space in it
SortSpaced ==
    /\ call.op = "sort" /\ call.arg # <<>>
    /\ \E c \in 1..Len(call.arg[1]) : call.arg[1][c] = " "

\* the sort keys of the statement the last call returned are those of its
\* receiver and then the key (path, desc)
KeyAdded(path, desc) ==
    /\ call.err = "" /\ call.res # 0
    /\ View(call.res).sort = Append(View(call.recv).sort, <<path, desc>>)

\* C22: for a sort argument with a space in it, the token after the path
\* decides: desc or descending adds the key descending, asc or ascending adds
\* it ascending, and every other token makes the call raise
\* NotImplementedError; a call that raised returned no statement and left the
\* sort keys of its receiver as they were.
C22_SortDirection ==
    SortSpaced =>
        LET tokens == Split(call.arg[1])
        IN /\ tokens[2] \in Descending => KeyAdded(tokens[1], TRUE)
           /\ tokens[2] \in Ascending => KeyAdded(tokens[1], FALSE)
           /\ tokens[2] \notin Descending \cup Ascending
                 => call.err = "NotImplementedError"
           /\ call.err # ""
                 => call.res = 0 /\ View(call.recv).sort = ViewThen(call.recv).sort

\* C23: populate and group_by called on an update or delete statement, whatever
\* calls made it, raise AttributeError and return nothing, and the text of the
\* receiver after the call is the text it had before.
C23_NoProjectionOnMutations ==
    (call.op \in {"populate", "group_by"} /\ objs[call.recv].kind \in {"Update", "Delete"})
        => /\ call.err = "AttributeError" /\ call.res = 0
           /\ View(call.recv).text = ViewThen(call.recv).text

\* group_by raised on a delete statement that a where call had made
C23_Witness ==
    /\ call.op = "group_by" /\ call.recv = 2 /\ call.err = "AttributeError"
    /\ objs[2].kind = "Delete" /\ snap[2].by.op = "where"
    /\ View(2).where # <<>> /\ View(2).group_by = <<>>

\* the sort keys with the descending flag of each one negated
Flipped(keys) == [c \in 1..Len(keys) |-> <<keys[c][1], ~keys[c][2]>>]

\* statement k is what the call op on statement j returned
MadeBy(k, op, j) == snap[k].by.op = op /\ snap[k].by.recv = j

\* C24: reversing a statement negates the descending flag of each of its sort
\* keys and keeps their order; a key a later sort call adds has the direction
\* that call asked for; reversing twice gives the text of the original;
\* reversing a statement without sort keys changes nothing; sort() without an
\* argument removes all sort keys.
C24_ReverseFlipsExistingKeys ==
    \A k \in Held : \A j \in Held :
        /\ MadeBy(k, "reverse", j) =>
              /\ View(k).sort = Flipped(View(j).sort)
              /\ View(j).sort = <<>> => View(k) = View(j)
              /\ \A i \in Held : MadeBy(j, "reverse", i) => View(k).text = View(i).text
        /\ MadeBy(k, "sort", j) =>
              IF snap[k].by.arg = <<>> THEN View(k).sort = <<>>
              ELSE LET tokens == Split(snap[k].by.arg[1])
                   IN View(k).sort =
                         Append(View(j).sort,
                                <<tokens[1], Len(tokens) = 2 /\ tokens[2] \in Descending>>)

\* sort('b desc'), reversed, then sort('c desc'): b ascending, c descending
C24_Witness ==
    /\ Len(objs) = 4
    /\ MadeBy(2, "sort", 1) /\ MadeBy(3, "reverse", 2) /\ MadeBy(4, "sort", 3)
    /\ View(4).sort = <<<<P_b, FALSE>>, <<P_c, TRUE>>>>

\* the lists where the conditions of statement i that are the empty text are
\* left out
WithoutEmptyConditions(i) ==
    [lists EXCEPT ![objs[i].where] = SelectSeq(@, LAMBDA condition : condition # <<>>)]

\* C30: a where call that adds no constraint (no argument, or only None) does
\* not show in the text: every statement reads as it would without its empty
\* conditions, so the where clause has no connective at its start or end, no
\* two connectives in a row, and no 'where' without a constraint.
C30_EmptyWhereIsNoOp ==
    \A i \in Held :
        objs[i].kind # "Create"
            => View(i).text = Str(WithoutEmptyConditions(i), objs[i])

\* the last call executed a statement of that kind, with a session to run on
Ran(kind) ==
    /\ call.op \in {"execute", "session.execute"}
    /\ objs[call.recv].kind = kind
    /\ call.err # "UnboundSessionError"

\* C25: executing a select statement, whatever its clauses (group by among
\* them), makes exactly one call, of the session's query, with the text of the
\* statement and its page size, and returns the result of that call as it is.
C25_SelectExecuteDelegates ==
    Ran("Select") =>
        /\ Len(call.sent) = 1
        /\ call.sent[1].method = "query"
        /\ call.sent[1].args = <<View(call.recv).text, View(call.recv).page_size>>
        /\ call.err = "" => call.ret = <<Ret(1, "", 0)>>

\* the calls of the last execute that were calls of one of the methods
Calls(methods) == SelectSeq(call.sent, LAMBDA made : made.method \in methods)

\* the position in the last execute of the call of method with args, 0 if
\* there is none
CallAt(method, args) ==
    LET at == {c \in 1..Len(call.sent) :
                  call.sent[c].method = method /\ call.sent[c].args = args}
    IN IF at = {} THEN 0 ELSE CHOOSE c \in at : \A d \in at : c <= d

\* the entities the query of the last execute found
Found == call.arg.server.found

\* C26: executing an update statement queries the session with the text of the
\* statement as a select (entity, where, order, offset, limit), sets each item
\* of the values on each entity the query gave, returns the number of these
\* entities, and never calls commit, create or delete of the session.
C26_UpdateAssignsAndCounts ==
    Ran("Update") =>
        LET vals == View(call.recv).values
        IN /\ Calls({"query"}) =
                 <<Sent(call.sent[1].on, "query", <<Select_str(lists, objs[call.recv])>>)>>
           /\ Calls({"commit", "create", "delete"}) = <<>>
           /\ call.err = "" =>
                 /\ call.ret = <<Ret(0, "", Len(Found))>>
                 /\ Len(Calls({"entity.__setitem__"})) = Len(Found) * Len(vals)
                 /\ \A e \in 1..Len(Found) : \A k \in 1..Len(vals) :
                        CallAt("entity.__setitem__", <<e, vals[k]>>) > CallAt("query", <<Select_str(lists, objs[call.recv])>>)

\* two entities found and two items set on each
C26_Witness ==
    /\ Ran("Update") /\ call.err = ""
    /\ Len(Found) = 2 /\ Len(View(call.recv).values) = 2
    /\ View(call.recv).where # <<>>
    /\ Len(Calls({"entity.__setitem__"})) = 4
    /\ call.ret = <<Ret(0, "", 2)>>

\* the sum of the numbers of a sequence
RECURSIVE Sum(_)
Sum(numbers) == IF numbers = <<>> THEN 0 ELSE numbers[1] + Sum(Tail(numbers))

\* C27: executing a delete statement calls delete of the session once for each
\* entity the query gave, in that order, and returns their number; with the
\* removal of components asked for, the query text has the locations in its
\* projection and remove_component is called for each location of an entity
\* before the delete of that entity; without it, remove_component is never
\* called.
C27_DeleteEachInOrder ==
    Ran("Delete") =>
        LET remove == View(call.recv).remove_components
            text == Calls({"query"})[1].args[1]
        IN /\ ~remove => Calls({"location.remove_component"}) = <<>>
           /\ ~remove => text = Select_str(lists, objs[call.recv])
           /\ remove => Find(text, S_locations \o <<" ">> \o S_from) > 0
           /\ call.err = "" =>
                 /\ call.ret = <<Ret(0, "", Len(Found))>>
                 /\ Calls({"delete"}) =
                       [e \in 1..Len(Found) |-> Sent(call.sent[1].on, "delete", <<e>>)]
                 /\ remove =>
                       /\ Len(Calls({"location.remove_component"})) = Sum(Found)
                       /\ \A e \in 1..Len(Found) : \A l \in 1..Found[e] :
                              /\ CallAt("location.remove_component", <<e, l>>) > 0
                              /\ CallAt("location.remove_component", <<e, l>>)
                                    < CallAt("delete", <<e>>)

\* two entities deleted, the component of the second one removed from its
\* location before
C27_Witness ==
    /\ Ran("Delete") /\ call.err = "" /\ View(call.recv).remove_components
    /\ Found = <<0, 1>>
    /\ Len(Calls({"delete"})) = 2
    /\ CallAt("delete", <<1>>) < CallAt("location.remove_component", <<2, 1>>)
    /\ CallAt("location.remove_component", <<2, 1>>) < CallAt("delete", <<2>>)
    /\ call.ret = <<Ret(0, "", 2)>>

\* C28: while an update or a delete statement is executed, automatic fetching
\* is switched off before the query, every call made for an entity (setting
\* an item, remove_component, delete) comes while it is off, and the setting it
\* had before is set again at the end, whether execute returns or one of these
\* calls raises.
C28_AutoPopulateScoped ==
    (Ran("Update") \/ Ran("Delete")) =>
        LET end == Len(call.sent)
        IN /\ end >= 3
           /\ call.sent[1] = Sent(call.sent[1].on, "auto_populating", <<FALSE>>)
           /\ call.sent[end] =
                 Sent(call.sent[1].on, "auto_populate", <<call.arg.server.auto>>)
           /\ \A c \in 2..(end - 1) :
                 call.sent[c].method \in
                    {"query", "entity.__setitem__", "location.remove_component", "delete"}
           /\ call.sent[2].method = "query"

\* remove_component raised for the second entity, after the first one was
\* deleted, while automatic fetching, on before, was off; it is on again
C28_Witness ==
    /\ Ran("Delete") /\ call.err = S_ServerError
    /\ call.arg.server.auto /\ call.arg.server.fails = 3
    /\ Len(call.sent) = 5
    /\ call.sent[1] = Sent(2, "auto_populating", <<FALSE>>)
    /\ call.sent[3].method = "delete"
    /\ call.sent[4].method = "location.remove_component"
    /\ call.sent[5] = Sent(2, "auto_populate", <<TRUE>>)

\* C29: session.execute(stmt) runs the statement on that session and leaves
\* the statement as it was: its session, its page size and its text are those
\* it had when the caller got it, every call is made on the calling session
\* even if the statement is bound to another one, and a statement without a
\* session still raises UnboundSessionError when it is executed itself.
C29_SessionExecuteDoesNotRebind ==
    call.op = "session.execute" =>
        /\ View(call.recv).session = ViewThen(call.recv).session
        /\ View(call.recv).session = LastSession(call.recv)
        /\ View(call.recv).page_size = ViewThen(call.recv).page_size
        /\ View(call.recv).text = ViewThen(call.recv).text
        /\ call.err # "UnboundSessionError"
        /\ call.sent # <<>>
        /\ \A c \in 1..Len(call.sent) : call.sent[c].on = call.arg.session
        /\ View(call.recv).session = NoneValue
              => execute(lists, objs[call.recv], NoneValue, call.arg.server).err
                    = "UnboundSessionError"

\* a statement bound to the session 1 was executed by the session 2
C29_Witness ==
    /\ call.op = "session.execute" /\ call.arg.session = 2 /\ call.err = ""
    /\ View(call.recv).session = 1 /\ snap[call.recv].by.op = "options"
    /\ call.sent[1].on = 2
    /\ execute(lists, objs[call.recv], NoneValue, call.arg.server).sent[1].on = 1

====
